---- MODULE Spec2Model ----
(***************************************************************************)
(* A model of tRead's text layout (src/tread/utils/text.py) and of its     *)
(* reading-position state machine (src/tread/ui/state.py, controller.py).  *)
(*                                                                         *)
(* A string is a sequence of one-character strings; a line sequence is a   *)
(* sequence of such strings.  These specifications share the module:       *)
(*   SpecWrap      wrap_text_to_width applied to bounded texts and widths, *)
(*   SpecPages     the outer loop of create_pages, one iteration per step, *)
(*   SpecLayout    wrap_text_to_width followed by create_pages,            *)
(*   SpecDouble    create_double_pages_with_width on bounded pages,        *)
(*   SpecProgress  the progress record of get_current_pages,               *)
(*   Spec          the event loop of UIController over a small book.       *)
(*   SpecTrack     track_open_tags line by line, then close_open_tags,     *)
(*   SpecSmallTerminal  create_pages with a visible height below two,      *)
(*   SpecMenu      the event loop with the chapter menu and the help,      *)
(*   SpecWalk      the event loop under one layout, page keys only,        *)
(*   SpecTurn      page and chapter keys, each followed by the progress.   *)
(***************************************************************************)
EXTENDS Integers, Sequences, FiniteSets, TLC

VARIABLES
    text, width, wrapped,                         \* wrap_text_to_width
    lines, visible_height, i, pages,              \* create_pages
    current_open_tags, ppc, emitted,
    book, current_chapter, current_page,          \* ReadingState
    override, termW, termH,                       \* _double_page_override, terminal
    pc, rPages, rTextWidth, rVisibleHeight,       \* UIController locals
    bookmark,                                     \* the "current" record on disk
    trace,                                        \* the last key events
    single_pages, arg_total_width, arg_separator, \* create_double_pages_with_width
    double_pages,
    position, progress_info,                      \* the progress of get_current_pages
    tags_open, closing_tags, tpc,                 \* track_open_tags, close_open_tags
    show_chapter_list, show_help,                 \* ReadingState: the overlays
    show_border,                                  \* config.display
    opened_at,                                    \* the position the menu was opened at
    phase, turned                                 \* a walk: its direction, its key presses

wrapVars == <<text, width, wrapped>>
pageVars == <<lines, visible_height, i, pages, current_open_tags, ppc, emitted>>
navVars  == <<book, current_chapter, current_page, override, termW, termH,
              pc, rPages, rTextWidth, rVisibleHeight, bookmark, trace>>
dblVars  == <<single_pages, arg_total_width, arg_separator, double_pages>>
progVars == <<position, progress_info>>
trackVars == <<tags_open, closing_tags, tpc>>
menuVars == <<show_chapter_list, show_help, show_border, opened_at>>
walkVars == <<phase, turned>>
calcVars == <<dblVars, progVars, trackVars, menuVars, walkVars>>
vars     == <<wrapVars, pageVars, navVars, calcVars>>

(***************************************************************************)
(* Bounds of the model.                                                    *)
(***************************************************************************)
MaxTextLen == 5
MaxWidth == 3
MaxLines == 4
MaxPlainLines == 6
MaxHeight == 5

(***************************************************************************)
(* Characters and generic sequence helpers.                                *)
(***************************************************************************)
NL == "\n"
SP == " "

Max(a, b) == IF a >= b THEN a ELSE b

Min(a, b) == IF a <= b THEN a ELSE b

RECURSIVE Flatten(_)
Flatten(ss) == IF ss = <<>> THEN <<>> ELSE Head(ss) \o Flatten(Tail(ss))

RECURSIVE Reverse(_)
Reverse(s) == IF s = <<>> THEN <<>> ELSE Append(Reverse(Tail(s)), Head(s))

RECURSIVE Blanks(_)
Blanks(n) == IF n <= 0 THEN <<>> ELSE <<SP>> \o Blanks(n - 1)

RECURSIVE EmptyLines(_)
EmptyLines(n) == IF n <= 0 THEN <<>> ELSE << <<>> >> \o EmptyLines(n - 1)

\* Python's s[a:b] for 0 <= a, on a sequence (0-based, b exclusive).
Slice(s, a, b) == SubSeq(s, a + 1, Min(b, Len(s)))

\* str.strip() is non-empty: the line holds a character that is not whitespace.
IsBlank(s) == \A k \in 1..Len(s) : s[k] \in {SP, NL}

\* str.split(sep) on a single character separator.
RECURSIVE SplitOn(_, _, _)
SplitOn(s, sep, cur) ==
    IF s = <<>> THEN <<cur>>
    ELSE IF Head(s) = sep THEN <<cur>> \o SplitOn(Tail(s), sep, <<>>)
    ELSE SplitOn(Tail(s), sep, Append(cur, Head(s)))

(***************************************************************************)
(* textwrap.wrap(line, width) with the defaults wrap_text_to_width uses:   *)
(* break_long_words, drop_whitespace, no indent, no max_lines.  The texts  *)
(* of the model hold no hyphen and no tab, so a chunk is a maximal run of  *)
(* spaces or of non-space characters.                                      *)
(***************************************************************************)
RECURSIVE SplitChunks(_, _)
SplitChunks(s, cur) ==
    IF s = <<>> THEN (IF cur = <<>> THEN <<>> ELSE <<cur>>)
    ELSE IF cur = <<>> \/ ((Head(s) = SP) = (cur[1] = SP))
         THEN SplitChunks(Tail(s), Append(cur, Head(s)))
         ELSE <<cur>> \o SplitChunks(Tail(s), <<Head(s)>>)

\* The inner while of _wrap_chunks: chunks are taken while they fit.
RECURSIVE FillLine(_, _, _, _)
FillLine(chunks, w, cur_line, cur_len) ==
    IF chunks /= <<>> /\ cur_len + Len(Head(chunks)) <= w
    THEN FillLine(Tail(chunks), w, Append(cur_line, Head(chunks)),
                  cur_len + Len(Head(chunks)))
    ELSE [cur_line |-> cur_line, cur_len |-> cur_len, chunks |-> chunks]

\* TextWrapper._handle_long_word: the chunk is cut at the room that is left.
HandleLongWord(f, w) ==
    LET space_left == IF w < 1 THEN 1 ELSE w - f.cur_len
        chunk == Head(f.chunks)
    IN  [cur_line |-> Append(f.cur_line, Slice(chunk, 0, space_left)),
         chunks   |-> <<Slice(chunk, space_left, Len(chunk))>> \o Tail(f.chunks)]

\* One line of the outer while of _wrap_chunks: the chunks that are left and
\* the lines so far.
WrapLine(chunks, w, out) ==
    LET c1 == IF IsBlank(Head(chunks)) /\ out /= <<>> THEN Tail(chunks) ELSE chunks
        f  == FillLine(c1, w, <<>>, 0)
        g  == IF f.chunks /= <<>> /\ Len(Head(f.chunks)) > w
              THEN HandleLongWord(f, w)
              ELSE [cur_line |-> f.cur_line, chunks |-> f.chunks]
        cl == IF g.cur_line /= <<>> /\ IsBlank(g.cur_line[Len(g.cur_line)])
              THEN SubSeq(g.cur_line, 1, Len(g.cur_line) - 1)
              ELSE g.cur_line
    IN  [chunks |-> g.chunks,
         out |-> IF cl /= <<>> THEN Append(out, Flatten(cl)) ELSE out]

\* The outer while of _wrap_chunks.  (The one-element set binds the state
\* after a line as a value, so that it is computed once per line.)
RECURSIVE WrapChunks(_, _, _)
WrapChunks(chunks, w, out) ==
    IF chunks = <<>> THEN out
    ELSE CHOOSE res \in {WrapChunks(n.chunks, w, n.out) : n \in {WrapLine(chunks, w, out)}} :
             TRUE

textwrap_wrap(line, w) == WrapChunks(SplitChunks(line, <<>>), w, <<>>)

(***************************************************************************)
(* wrap_text_to_width.  The result records whether the call raised         *)
(* (textwrap raises ValueError for a width below 1 as soon as it is given  *)
(* a segment to wrap) and, when it did not, the returned lines.            *)
(***************************************************************************)
RECURSIVE WrapSegments(_, _)
WrapSegments(segs, w) ==
    IF segs = <<>> THEN <<>>
    ELSE LET line == Head(segs)
             r == textwrap_wrap(line, w)
         IN  (IF ~IsBlank(line)
              THEN (IF r = <<>> THEN << <<>> >> ELSE r)
              ELSE << <<>> >>)
             \o WrapSegments(Tail(segs), w)

\* A mutant of wrap_text_to_width: the lines are wrapped one column too wide.
wrap_text_to_width_wide(t, w) ==
    LET segs == SplitOn(t, NL, <<>>)
    IN  IF w <= 0 /\ \E k \in 1..Len(segs) : ~IsBlank(segs[k])
        THEN [raised |-> TRUE, lines |-> <<>>]
        ELSE [raised |-> FALSE, lines |-> WrapSegments(segs, w + 1)]

\* A mutant of wrap_text_to_width: blank segments are dropped, not kept as "".
wrap_text_to_width_noblank(t, w) ==
    LET segs == SplitOn(t, NL, <<>>)
    IN  IF w <= 0 /\ \E k \in 1..Len(segs) : ~IsBlank(segs[k])
        THEN [raised |-> TRUE, lines |-> <<>>]
        ELSE [raised |-> FALSE,
              lines |-> WrapSegments(SelectSeq(segs, LAMBDA x : ~IsBlank(x)), w)]

wrap_text_to_width(t, w) ==
    LET segs == SplitOn(t, NL, <<>>)
    IN  IF w <= 0 /\ \E k \in 1..Len(segs) : ~IsBlank(segs[k])
        THEN [raised |-> TRUE, lines |-> <<>>]
        ELSE [raised |-> FALSE, lines |-> WrapSegments(segs, w)]

(***************************************************************************)
(* Markup: parse_markup_tags, track_open_tags, close_open_tags and         *)
(* open_tags_string.  A tag is [close, name], name a string.               *)
(***************************************************************************)
NonWordChars == {SP, NL, "[", "]", "/", "|"}

\* The index of the last character of the run of [a-zA-Z0-9_] starting at q
\* (q - 1 when s[q] is not such a character).
RECURSIVE NameEnd(_, _)
NameEnd(s, q) ==
    IF q <= Len(s) /\ s[q] \notin NonWordChars THEN NameEnd(s, q + 1) ELSE q - 1

\* The index of the first "]" at or after q, 0 when there is none.
RECURSIVE FirstClose(_, _)
FirstClose(s, q) ==
    IF q > Len(s) THEN 0 ELSE IF s[q] = "]" THEN q ELSE FirstClose(s, q + 1)

\* tag_pattern \[/?([a-zA-Z0-9_]+(?:\s+[^]]*)?)\] matched at position p:
\* the index of the closing "]" of the match, 0 when there is no match.
MatchEnd(s, p) ==
    LET q == IF p + 1 <= Len(s) /\ s[p + 1] = "/" THEN p + 2 ELSE p + 1
        r == NameEnd(s, q)
    IN  IF s[p] /= "[" \/ r < q \/ r + 1 > Len(s) THEN 0
        ELSE IF s[r + 1] = "]" THEN r + 1
        ELSE IF s[r + 1] \in {SP, NL} THEN FirstClose(s, r + 2)
        ELSE 0

\* re.finditer(tag_pattern, line): the tags of the line, left to right.
RECURSIVE ScanTags(_, _)
ScanTags(s, p) ==
    IF p > Len(s) THEN <<>>
    ELSE LET e == MatchEnd(s, p)
         IN  IF e = 0 THEN ScanTags(s, p + 1)
             ELSE IF s[p + 1] = "/"
                  THEN <<[close |-> TRUE, name |-> SubSeq(s, p + 2, e - 1)]>>
                       \o ScanTags(s, e + 1)
                  ELSE <<[close |-> FALSE, name |-> SubSeq(s, p + 1, NameEnd(s, p + 1))]>>
                       \o ScanTags(s, e + 1)

RECURSIVE TagNames(_)
TagNames(ts) == IF ts = <<>> THEN <<>> ELSE <<Head(ts).name>> \o TagNames(Tail(ts))

parse_markup_tags(line) ==
    LET ts == ScanTags(line, 1)
    IN  [opening |-> TagNames(SelectSeq(ts, LAMBDA t : ~t.close)),
         closing |-> TagNames(SelectSeq(ts, LAMBDA t : t.close))]

\* A mutant of RemoveLast: the oldest occurrence is removed.
RemoveFirst(open_tags, tag) ==
    LET hits == {k \in 1..Len(open_tags) : open_tags[k] = tag}
    IN  IF hits = {} THEN open_tags
        ELSE LET m == CHOOSE k \in hits : \A h \in hits : k <= h
             IN  SubSeq(open_tags, 1, m - 1) \o SubSeq(open_tags, m + 1, Len(open_tags))

\* The inner for of track_open_tags: the most recent occurrence is removed.
RemoveLast(open_tags, tag) ==
    LET hits == {k \in 1..Len(open_tags) : open_tags[k] = tag}
    IN  IF hits = {} THEN open_tags
        ELSE LET m == CHOOSE k \in hits : \A h \in hits : h <= k
             IN  SubSeq(open_tags, 1, m - 1) \o SubSeq(open_tags, m + 1, Len(open_tags))

RECURSIVE RemoveClosing(_, _)
RemoveClosing(open_tags, closing) ==
    IF closing = <<>> THEN open_tags
    ELSE RemoveClosing(RemoveLast(open_tags, Head(closing)), Tail(closing))

\* One line of track_open_tags: all its opening tags, then all its closing tags.
TrackLine(open_tags, line) ==
    LET t == parse_markup_tags(line)
    IN  RemoveClosing(open_tags \o t.opening, t.closing)

RECURSIVE TrackFrom(_, _)
TrackFrom(ls, open_tags) ==
    IF ls = <<>> THEN open_tags ELSE TrackFrom(Tail(ls), TrackLine(open_tags, Head(ls)))

track_open_tags(ls) == TrackFrom(ls, <<>>)

RECURSIVE open_tags_string(_)
open_tags_string(open_tags) ==
    IF open_tags = <<>> THEN <<>>
    ELSE <<"[">> \o Head(open_tags) \o <<"]">> \o open_tags_string(Tail(open_tags))

RECURSIVE close_open_tags(_)
close_open_tags(open_tags) ==
    IF open_tags = <<>> THEN <<>>
    ELSE close_open_tags(Tail(open_tags)) \o <<"[", "/">> \o Head(open_tags) \o <<"]">>

(***************************************************************************)
(* _finalize_page_markup.                                                  *)
(***************************************************************************)
FirstNonBlank(page) ==
    LET nb == {k \in 1..Len(page) : ~IsBlank(page[k])}
    IN  IF nb = {} THEN 0 ELSE CHOOSE k \in nb : \A h \in nb : k <= h

LastNonBlank(page) ==
    LET nb == {k \in 1..Len(page) : ~IsBlank(page[k])}
    IN  IF nb = {} THEN 0 ELSE CHOOSE k \in nb : \A h \in nb : h <= k

finalize_page_markup(page_content, start_open_tags) ==
    IF page_content = <<>> THEN page_content
    ELSE
      LET f  == FirstNonBlank(page_content)
          p1 == IF start_open_tags /= <<>> /\ f > 0
                THEN [page_content EXCEPT ![f] = open_tags_string(start_open_tags) \o @]
                ELSE page_content
          all_open_tags == track_open_tags(<<open_tags_string(start_open_tags)>> \o p1)
          l  == LastNonBlank(p1)
      IN  IF all_open_tags /= <<>> /\ l > 0
          THEN [p1 EXCEPT ![l] = @ \o close_open_tags(all_open_tags)]
          ELSE p1

(***************************************************************************)
(* create_pages.  One iteration of the outer while is PageStep: the inner  *)
(* while fills current_page (empty at the start of every iteration), then  *)
(* one of three branches emits a page.  The loop state is [i, pages,       *)
(* current_open_tags].                                                     *)
(***************************************************************************)
\* buffer after the inner while, from input index i (0-based).
FillPage(ls, vh, idx) == SubSeq(ls, idx + 1, idx + Max(0, Min(vh, Len(ls) - idx)))

\* A mutant of BreakIndex: the lookback also examines index len - 5, down to 0.
BreakIndexFive(buffer) ==
    LET n  == Len(buffer)
        js == {j \in Max(0, n - 5)..(n - 1) : buffer[j + 1] = <<>>}
    IN  IF js = {} THEN -1 ELSE CHOOSE j \in js : \A h \in js : h <= j

\* for j in range(len - 1, max(0, len - 5), -1): the first (largest) j whose
\* line is "", or -1 when the for runs to its else.  The stop is exclusive.
BreakIndex(buffer) ==
    LET n  == Len(buffer)
        js == {j \in (Max(0, n - 5) + 1)..(n - 1) : buffer[j + 1] = <<>>}
    IN  IF js = {} THEN -1 ELSE CHOOSE j \in js : \A h \in js : h <= j

\* A mutant of PadPage: the page is not filled up with empty lines.
PadPageNone(page_content, vh) == page_content

\* while len(page_content) < visible_height: page_content.append("")
PadPage(page_content, vh) == page_content \o EmptyLines(vh - Len(page_content))

\* Which branch an iteration takes.
PageBranch(ls, vh, idx) ==
    LET buffer == FillPage(ls, vh, idx)
        i1 == idx + Len(buffer)
    IN  IF Len(buffer) = vh /\ i1 < Len(ls)
        THEN (IF BreakIndex(buffer) >= 0 THEN "blank" ELSE "hard")
        ELSE (IF buffer /= <<>> THEN "last" ELSE "none")

\* A mutant of PageStep: after a cut at a blank line the lines behind it are
\* not put back (i is left where the inner while stopped).
PageStepNoPutBack(ls, vh, st) ==
    LET buffer == FillPage(ls, vh, st.i)
        i1 == st.i + Len(buffer)
        j  == BreakIndex(buffer)
    IN  IF Len(buffer) = vh /\ i1 < Len(ls)
        THEN IF j >= 0
             THEN LET page_content == finalize_page_markup(Slice(buffer, 0, j + 1), st.cur)
                  IN  [i |-> i1,
                       pages |-> Append(st.pages, PadPage(page_content, vh)),
                       cur |-> track_open_tags(<<open_tags_string(st.cur)>> \o page_content)]
             ELSE [i |-> i1,
                   pages |-> Append(st.pages, finalize_page_markup(buffer, st.cur)),
                   cur |-> track_open_tags(<<open_tags_string(st.cur)>> \o buffer)]
        ELSE IF buffer /= <<>>
             THEN [i |-> i1,
                   pages |-> Append(st.pages,
                                    PadPage(finalize_page_markup(buffer, st.cur), vh)),
                   cur |-> st.cur]
             ELSE st

\* A mutant of PageStep: after a hard cut the carried tags are tracked on the
\* finalized page, as they are after a cut at a blank line.
PageStepCarryClosed(ls, vh, st) ==
    LET buffer == FillPage(ls, vh, st.i)
        i1 == st.i + Len(buffer)
        j  == BreakIndex(buffer)
    IN  IF Len(buffer) = vh /\ i1 < Len(ls)
        THEN IF j >= 0
             THEN LET page_content == finalize_page_markup(Slice(buffer, 0, j + 1), st.cur)
                      remaining == Slice(buffer, j + 1, Len(buffer))
                  IN  [i |-> i1 - Len(remaining),
                       pages |-> Append(st.pages, PadPage(page_content, vh)),
                       cur |-> track_open_tags(<<open_tags_string(st.cur)>> \o page_content)]
             ELSE LET page_content == finalize_page_markup(buffer, st.cur)
                  IN  [i |-> i1,
                       pages |-> Append(st.pages, page_content),
                       cur |-> track_open_tags(<<open_tags_string(st.cur)>> \o page_content)]
        ELSE IF buffer /= <<>>
             THEN [i |-> i1,
                   pages |-> Append(st.pages,
                                    PadPage(finalize_page_markup(buffer, st.cur), vh)),
                   cur |-> st.cur]
             ELSE st

PageStep(ls, vh, st) ==
    LET buffer == FillPage(ls, vh, st.i)
        i1 == st.i + Len(buffer)
        j  == BreakIndex(buffer)
    IN  IF Len(buffer) = vh /\ i1 < Len(ls)
        THEN IF j >= 0
             THEN \* split at the blank line, the remaining lines go back
                  LET page_content == finalize_page_markup(Slice(buffer, 0, j + 1), st.cur)
                      remaining == Slice(buffer, j + 1, Len(buffer))
                  IN  [i |-> i1 - Len(remaining),
                       pages |-> Append(st.pages, PadPage(page_content, vh)),
                       cur |-> track_open_tags(<<open_tags_string(st.cur)>> \o page_content)]
             ELSE \* no break found: the full page, tags tracked on the raw lines
                  [i |-> i1,
                   pages |-> Append(st.pages, finalize_page_markup(buffer, st.cur)),
                   cur |-> track_open_tags(<<open_tags_string(st.cur)>> \o buffer)]
        ELSE IF buffer /= <<>>
             THEN [i |-> i1,
                   pages |-> Append(st.pages,
                                    PadPage(finalize_page_markup(buffer, st.cur), vh)),
                   cur |-> st.cur]
             ELSE st

\* The outer while.  (The one-element sets bind the new loop state as a
\* value, so that it is computed once per iteration.)
RECURSIVE PagesLoop(_, _, _)
PagesLoop(ls, vh, st) ==
    IF st.i < Len(ls)
    THEN CHOOSE out \in {PagesLoop(ls, vh, nxt) : nxt \in {PageStep(ls, vh, st)}} : TRUE
    ELSE st.pages

\* A mutant of create_pages: lines that are all empty give no page.
create_pages_nonblank(ls, vh) ==
    IF \A k \in 1..Len(ls) : ls[k] = <<>> THEN <<>>
    ELSE PagesLoop(ls, vh, [i |-> 0, pages |-> <<>>, cur |-> <<>>])

\* create_pages for a visible_height of at least 1 (the loop then ends).
create_pages(ls, vh) == PagesLoop(ls, vh, [i |-> 0, pages |-> <<>>, cur |-> <<>>])

(***************************************************************************)
(* Input domains and the values of the variables a specification leaves    *)
(* alone.                                                                  *)
(***************************************************************************)
SeqsUpTo(S, n) == UNION {[1..k -> S] : k \in 0..n}

TextChars == {"a", SP, NL, "[", "]"}

\* Lines with markup: "", " ", "a", "[b]a", "a[/b]", "[/b][b]", "[i]".
MarkupLines ==
    { <<>>, <<SP>>, <<"a">>, <<"[", "b", "]", "a">>, <<"a", "[", "/", "b", "]">>,
      <<"[", "/", "b", "]", "[", "b", "]">>, <<"[", "i", "]">> }

PlainLines == { <<>>, <<"a">> }

PageInputs == SeqsUpTo(MarkupLines, MaxLines) \cup SeqsUpTo(PlainLines, MaxPlainLines)

NotCalled == [called |-> FALSE, raised |-> FALSE, lines |-> <<>>]

IdleWrap == text = <<>> /\ width = 1 /\ wrapped = NotCalled

IdlePages ==
    /\ lines = <<>> /\ visible_height = 1 /\ i = 0 /\ pages = <<>>
    /\ current_open_tags = <<>> /\ ppc = "idle" /\ emitted = <<>>

\* load_bookmark returns None: the bookmark file has no "current" record.
NoBookmark == [exists |-> FALSE, chapter |-> 0, page |-> 0]

IdleNav ==
    /\ book = <<>> /\ current_chapter = 0 /\ current_page = 0
    /\ override = "unset" /\ termW = 80 /\ termH = 24
    /\ pc = "idle" /\ rPages = <<>> /\ rTextWidth = 0 /\ rVisibleHeight = 0
    /\ bookmark = NoBookmark
    /\ trace = [key |-> "none"]

IdleDouble ==
    /\ single_pages = <<>> /\ arg_total_width = 0 /\ arg_separator = <<>>
    /\ double_pages = [called |-> FALSE, pages |-> <<>>]

IdleProgress ==
    /\ position = [page |-> 0, pages |-> 0, chapter |-> 0, chapters |-> 1]
    /\ progress_info = [called |-> FALSE]

IdleTrack == tags_open = <<>> /\ closing_tags = <<>> /\ tpc = "idle"

IdleMenu ==
    /\ show_chapter_list = FALSE /\ show_help = FALSE /\ show_border = FALSE
    /\ opened_at = [chapter |-> 0, page |-> 0]

IdleWalk == phase = "none" /\ turned = 0

IdleCalc == IdleDouble /\ IdleProgress /\ IdleTrack /\ IdleMenu /\ IdleWalk

(***************************************************************************)
(* SpecWrap: one call of wrap_text_to_width.                               *)
(***************************************************************************)
InitWrap ==
    /\ text \in SeqsUpTo(TextChars, MaxTextLen)
    /\ width \in -1..MaxWidth
    /\ wrapped = NotCalled
    /\ IdlePages /\ IdleNav /\ IdleCalc

WrapCall ==
    /\ ~wrapped.called
    /\ LET r == wrap_text_to_width(text, width)
       IN  wrapped' = [called |-> TRUE, raised |-> r.raised, lines |-> r.lines]
    /\ UNCHANGED <<text, width, pageVars, navVars, calcVars>>

NextWrap == WrapCall

SpecWrap == InitWrap /\ [][NextWrap]_vars

(***************************************************************************)
(* SpecLayout: the layout of one chapter in single-page mode, as           *)
(* get_current_pages computes it: wrap_text_to_width, then create_pages on *)
(* the wrapped lines.                                                      *)
(***************************************************************************)
MaxLayoutLen == 4

InitLayout ==
    /\ text \in SeqsUpTo(TextChars, MaxLayoutLen)
    /\ width \in 0..MaxWidth
    /\ wrapped = NotCalled
    /\ visible_height \in 1..MaxHeight
    /\ lines = <<>> /\ i = 0 /\ pages = <<>>
    /\ current_open_tags = <<>> /\ ppc = "idle" /\ emitted = <<>>
    /\ IdleNav /\ IdleCalc

LayoutCall ==
    /\ ~wrapped.called
    /\ \E r \in {wrap_text_to_width(text, width)} :
          /\ wrapped' = [called |-> TRUE, raised |-> r.raised, lines |-> r.lines]
          /\ pages' = IF r.raised THEN <<>> ELSE create_pages(r.lines, visible_height)
    /\ UNCHANGED <<text, width, lines, visible_height, i, current_open_tags, ppc,
                   emitted, navVars, calcVars>>

NextLayout == LayoutCall

SpecLayout == InitLayout /\ [][NextLayout]_vars

(***************************************************************************)
(* SpecTrack: track_open_tags, one line of its for loop per step, and      *)
(* close_open_tags on the list it returns.                                 *)
(***************************************************************************)
InitTrack ==
    /\ lines \in SeqsUpTo(MarkupLines, MaxLines)
    /\ i = 0
    /\ tags_open = <<>> /\ closing_tags = <<>> /\ tpc = "loop"
    /\ visible_height = 1 /\ pages = <<>> /\ current_open_tags = <<>>
    /\ ppc = "idle" /\ emitted = <<>>
    /\ IdleWrap /\ IdleNav /\ IdleDouble /\ IdleProgress /\ IdleMenu /\ IdleWalk

\* for line in lines: one line
TrackNextLine ==
    /\ tpc = "loop"
    /\ i < Len(lines)
    /\ tags_open' = TrackLine(tags_open, lines[i + 1])
    /\ i' = i + 1
    /\ UNCHANGED <<lines, closing_tags, tpc, visible_height, pages, current_open_tags,
                   ppc, emitted, wrapVars, navVars, dblVars, progVars, menuVars, walkVars>>

\* return open_tags, handed to close_open_tags
CloseTracked ==
    /\ tpc = "loop"
    /\ i >= Len(lines)
    /\ closing_tags' = close_open_tags(tags_open)
    /\ tpc' = "closed"
    /\ UNCHANGED <<lines, i, tags_open, visible_height, pages, current_open_tags,
                   ppc, emitted, wrapVars, navVars, dblVars, progVars, menuVars, walkVars>>

NextTrack == TrackNextLine \/ CloseTracked

SpecTrack == InitTrack /\ [][NextTrack]_vars

(***************************************************************************)
(* SpecPages: create_pages, one iteration of its outer while per step.     *)
(* emitted records, for every page, the branch that emitted it, the input  *)
(* index the iteration started from, the number of input lines it consumed *)
(* and the carried tags handed to _finalize_page_markup.                   *)
(***************************************************************************)
InitPages ==
    /\ lines \in PageInputs
    /\ visible_height \in 1..MaxHeight
    /\ i = 0 /\ pages = <<>> /\ current_open_tags = <<>>
    /\ ppc = "loop" /\ emitted = <<>>
    /\ IdleWrap /\ IdleNav /\ IdleCalc

\* The state after one iteration, and its record in emitted.
Iterated(kind) ==
    LET st == PageStep(lines, visible_height,
                       [i |-> i, pages |-> pages, cur |-> current_open_tags])
    IN  /\ i' = st.i
        /\ pages' = st.pages
        /\ current_open_tags' = st.cur
        /\ emitted' = Append(emitted, [kind |-> kind, from |-> i, taken |-> st.i - i,
                                       start |-> current_open_tags])

CutAtBlank ==
    /\ ppc = "loop"
    /\ i < Len(lines)
    /\ PageBranch(lines, visible_height, i) = "blank"
    /\ Iterated("blank")
    /\ UNCHANGED <<lines, visible_height, ppc, wrapVars, navVars, calcVars>>

HardCut ==
    /\ ppc = "loop"
    /\ i < Len(lines)
    /\ PageBranch(lines, visible_height, i) = "hard"
    /\ Iterated("hard")
    /\ UNCHANGED <<lines, visible_height, ppc, wrapVars, navVars, calcVars>>

EmitLast ==
    /\ ppc = "loop"
    /\ i < Len(lines)
    /\ PageBranch(lines, visible_height, i) = "last"
    /\ Iterated("last")
    /\ UNCHANGED <<lines, visible_height, ppc, wrapVars, navVars, calcVars>>

ReturnPages ==
    /\ ppc = "loop"
    /\ i >= Len(lines)
    /\ ppc' = "done"
    /\ UNCHANGED <<lines, visible_height, i, pages, current_open_tags, emitted,
                   wrapVars, navVars, calcVars>>

NextPages == CutAtBlank \/ HardCut \/ EmitLast \/ ReturnPages

SpecPages == InitPages /\ [][NextPages]_vars

(***************************************************************************)
(* Properties of create_pages (checked under SpecPages).                   *)
(***************************************************************************)
\* The tags of a page, line by line, each line left to right.
RECURSIVE PageTags(_)
PageTags(page) ==
    IF page = <<>> THEN <<>> ELSE ScanTags(Head(page), 1) \o PageTags(Tail(page))

\* A marker-by-marker scan: an opening marker pushes its name, a closing
\* marker pops the most recent tag of its name, an unmatched one does nothing.
RECURSIVE ScanStack(_, _)
ScanStack(ts, stack) ==
    IF ts = <<>> THEN stack
    ELSE IF Head(ts).close
         THEN ScanStack(Tail(ts), RemoveLast(stack, Head(ts).name))
         ELSE ScanStack(Tail(ts), Append(stack, Head(ts).name))

\* C1: every page returned by create_pages, scanned marker by marker from its
\* first line to its last, ends with an empty tag stack.
C1_PageBalanced ==
    \A k \in 1..Len(pages) : ScanStack(PageTags(pages[k]), <<>>) = <<>>

\* C2: every page returned by create_pages has exactly visible_height lines,
\* whichever branch emitted it.
C2_FixedHeight ==
    \A k \in 1..Len(pages) : Len(pages[k]) = visible_height

\* All three branches have emitted a page of the finished run.
C2_Witness ==
    /\ ppc = "done"
    /\ {emitted[k].kind : k \in 1..Len(emitted)} = {"blank", "hard", "last"}
    /\ \E k \in 1..Len(emitted) : emitted[k].taken < visible_height

\* s consists of opening markers only / of closing markers only.
OnlyOpening(s) ==
    LET ts == ScanTags(s, 1)
    IN  (\A k \in 1..Len(ts) : ~ts[k].close) /\ open_tags_string(TagNames(ts)) = s

OnlyClosing(s) ==
    LET ts == ScanTags(s, 1)
    IN  (\A k \in 1..Len(ts) : ts[k].close)
        /\ close_open_tags(Reverse(TagNames(ts))) = s

\* out is the input line orig with opening markers put in front of it and
\* closing markers put behind it, and nothing else changed.
Decorated(orig, out) ==
    \E p \in 0..(Len(out) - Len(orig)) :
        /\ SubSeq(out, p + 1, p + Len(orig)) = orig
        /\ OnlyOpening(SubSeq(out, 1, p))
        /\ OnlyClosing(SubSeq(out, p + Len(orig) + 1, Len(out)))

\* C3: no input line is lost, duplicated or reordered.  Page k holds the
\* input lines from+1 .. from+taken in order, each unchanged apart from
\* markers at its start or end, followed by empty padding lines only; the
\* next page starts at the line after them (after a cut at blank index j,
\* at the line after j); the finished run has consumed every line.
C3_NoLineLost ==
    /\ Len(emitted) = Len(pages)
    /\ \A k \in 1..Len(pages) :
          LET e == emitted[k]
          IN  /\ e.from = (IF k = 1 THEN 0 ELSE emitted[k - 1].from + emitted[k - 1].taken)
              /\ e.taken >= 1
              /\ e.taken <= Len(pages[k])
              /\ \A n \in 1..Len(pages[k]) :
                    IF n <= e.taken
                    THEN Decorated(lines[e.from + n], pages[k][n])
                    ELSE pages[k][n] = <<>>
              /\ e.kind = "blank" => lines[e.from + e.taken] = <<>>
    /\ i = (IF emitted = <<>> THEN 0
            ELSE emitted[Len(emitted)].from + emitted[Len(emitted)].taken)
    /\ ppc = "done" => i = Len(lines)

\* A finished run with a cut at a blank line that put lines back, a page that
\* got markers added, and a padded page.
C3_Witness ==
    /\ ppc = "done"
    /\ \E k \in 1..Len(emitted) :
          emitted[k].kind = "blank" /\ emitted[k].taken < visible_height
    /\ \E k \in 1..Len(pages) : \E n \in 1..emitted[k].taken :
          pages[k][n] /= lines[emitted[k].from + n]

\* The newest blank line among the buffer indices lo .. len-1 (0-based),
\* -1 when there is none.
NewestBlank(buffer, lo) ==
    LET js == {j \in lo..(Len(buffer) - 1) : buffer[j + 1] = <<>>}
    IN  IF js = {} THEN -1 ELSE CHOOSE j \in js : \A h \in js : h <= j

\* What a full buffer with more input behind it must lead to, when the blank
\* line looked for is the newest one at the indices lo(len) .. len-1.
CutsAtWindow(lo(_)) ==
    \A k \in 1..Len(emitted) :
        LET e == emitted[k]
            buffer == FillPage(lines, visible_height, e.from)
            j == NewestBlank(buffer, lo(Len(buffer)))
        IN  (Len(buffer) = visible_height /\ e.from + Len(buffer) < Len(lines)) =>
               IF j >= 0
               THEN /\ e.taken = j + 1
                    /\ pages[k] = PadPage(finalize_page_markup(Slice(buffer, 0, j + 1),
                                                               e.start), visible_height)
               ELSE /\ e.taken = visible_height
                    /\ pages[k] = finalize_page_markup(buffer, e.start)

LastFive(n) == Max(0, n - 5)

LastFourNotFirst(n) == Max(0, n - 5) + 1

\* C4 (as claimed): a full buffer with more input behind it is cut at the
\* newest blank line among its last 5 lines (indices len-5 .. len-1, clipped
\* at 0), and emitted whole only when none of those is blank.
C4_LastFiveWindow == CutsAtWindow(LastFive)

\* C4 (amended): the lines examined are the last 4 of the buffer, index 0
\* never among them: indices max(0, len-5)+1 .. len-1.
C4_LastFourWindow == CutsAtWindow(LastFourNotFirst)

\* A finished run with a cut at a blank line in the window, and a hard cut of
\* a buffer whose only blank lines are at index 0 or at index len-5.
C4_Witness ==
    /\ ppc = "done"
    /\ \E k \in 1..Len(emitted) : emitted[k].kind = "blank"
    /\ \E k \in 1..Len(emitted) :
          /\ emitted[k].kind = "hard"
          /\ NewestBlank(FillPage(lines, visible_height, emitted[k].from), 0) >= 0

(***************************************************************************)
(* Properties of wrap_text_to_width (checked under SpecWrap).              *)
(***************************************************************************)
\* str.split(): the whitespace-delimited tokens of a string.
RECURSIVE TokensFrom(_, _)
TokensFrom(s, cur) ==
    IF s = <<>> THEN (IF cur = <<>> THEN <<>> ELSE <<cur>>)
    ELSE IF Head(s) \in {SP, NL}
         THEN (IF cur = <<>> THEN <<>> ELSE <<cur>>) \o TokensFrom(Tail(s), <<>>)
         ELSE TokensFrom(Tail(s), Append(cur, Head(s)))

Tokens(s) == TokensFrom(s, <<>>)

RECURSIVE LineTokens(_)
LineTokens(ls) == IF ls = <<>> THEN <<>> ELSE Tokens(Head(ls)) \o LineTokens(Tail(ls))

HasLongToken(t, w) == \E k \in 1..Len(Tokens(t)) : Len(Tokens(t)[k]) > w

Returned == wrapped.called /\ ~wrapped.raised

RECURSIVE StripMarkup(_)
StripMarkup(s) ==
    IF s = <<>> THEN <<>>
    ELSE IF Head(s) = "[" /\ FirstClose(s, 2) > 0
         THEN StripMarkup(SubSeq(s, FirstClose(s, 2) + 1, Len(s)))
         ELSE <<Head(s)>> \o StripMarkup(Tail(s))

VisibleLength(s) == Len(StripMarkup(s))

BlankSegments(t) == SelectSeq(SplitOn(t, NL, <<>>), IsBlank)

\* C6: for width >= 1 every line has visible length at most width, unless it
\* is a single token longer than width; every blank segment of the text
\* yields exactly one empty line.
C6_WidthBound ==
    Returned =>
       /\ width >= 1 =>
             \A k \in 1..Len(wrapped.lines) :
                LET l == wrapped.lines[k]
                IN  \/ VisibleLength(l) <= width
                    \/ (Tokens(l) = <<l>> /\ Len(l) > width)
       /\ Len(SelectSeq(wrapped.lines, LAMBDA l : l = <<>>)) = Len(BlankSegments(text))

\* A text with a blank segment, a marker and two tokens that do not fit on
\* one line was wrapped.
C6_Witness ==
    /\ Returned /\ width >= 1
    /\ BlankSegments(text) /= <<>>
    /\ \E k \in 1..Len(wrapped.lines) :
          VisibleLength(wrapped.lines[k]) < Len(wrapped.lines[k])
    /\ Len(Tokens(text)) >= 2

\* C7: wrap_text_to_width never raises; with width < 1 it returns what it
\* returns for width = 1.
C7_NoErrorOutcome ==
    wrapped.called =>
       /\ ~wrapped.raised
       /\ width < 1 => wrapped.lines = wrap_text_to_width(text, 1).lines

(***************************************************************************)
(* Double pages: create_double_pages_with_width, _format_line_for_column.  *)
(***************************************************************************)
\* Python's line[:n], n possibly negative.
SliceTo(s, n) == IF n >= 0 THEN SubSeq(s, 1, Min(n, Len(s)))
                 ELSE SubSeq(s, 1, Max(0, Len(s) + n))

\* A mutant of _format_line_for_column: the length of the line is taken
\* with its markers.
format_line_for_column_raw(line, column_width) ==
    IF IsBlank(line) THEN Blanks(column_width)
    ELSE IF Len(line) <= column_width
         THEN line \o Blanks(column_width - Len(line))
         ELSE SliceTo(line, column_width)

\* _format_line_for_column
format_line_for_column(line, column_width) ==
    IF IsBlank(line) THEN Blanks(column_width)
    ELSE IF VisibleLength(line) <= column_width
         THEN line \o Blanks(column_width - VisibleLength(line))
         ELSE SliceTo(line, column_width)

\* The rows of one double page; a shorter page counts as ending in "" lines.
CombinedPage(left_page, right_page, column_width, separator) ==
    LET max_height == Max(Len(left_page), Len(right_page))
        At(pg, j) == IF j <= Len(pg) THEN pg[j] ELSE <<>>
    IN  [j \in 1..max_height |->
            format_line_for_column(At(left_page, j), column_width)
            \o separator
            \o format_line_for_column(At(right_page, j), column_width)]

\* A mutant of the pairing loop: a last page without a partner is dropped.
RECURSIVE DoublePagesFromPairs(_, _, _)
DoublePagesFromPairs(pgs, column_width, separator) ==
    IF Len(pgs) < 2 THEN <<>>
    ELSE <<CombinedPage(pgs[1], pgs[2], column_width, separator)>>
         \o DoublePagesFromPairs(SubSeq(pgs, 3, Len(pgs)), column_width, separator)

\* for i in range(0, len(pages), 2)
RECURSIVE DoublePagesFrom(_, _, _)
DoublePagesFrom(pgs, column_width, separator) ==
    IF pgs = <<>> THEN <<>>
    ELSE LET left_page  == pgs[1]
             right_page == IF Len(pgs) >= 2 THEN pgs[2] ELSE EmptyLines(Len(left_page))
         IN  <<CombinedPage(left_page, right_page, column_width, separator)>>
             \o DoublePagesFrom(SubSeq(pgs, 3, Len(pgs)), column_width, separator)

create_double_pages_with_width(pgs, total_width, separator) ==
    DoublePagesFrom(pgs, (total_width - Len(separator)) \div 2, separator)

(***************************************************************************)
(* SpecDouble: one call of create_double_pages_with_width on single pages  *)
(* whose markup is balanced.                                               *)
(***************************************************************************)
MaxSinglePages == 3
MaxTotalWidth == 8

\* Single pages: "", "a", "[b]a[/b]", "[b]aa[/b]" as pages of one line, and
\* the pages of two lines "[b]a" / "a[/b]" and "a" / "".
SinglePages ==
    { << <<>> >>, << <<"a">> >>,
      << <<"[", "b", "]", "a", "[", "/", "b", "]">> >>,
      << <<"[", "b", "]", "a", "a", "[", "/", "b", "]">> >>,
      << <<"[", "b", "]", "a">>, <<"a", "[", "/", "b", "]">> >>,
      << <<"a">>, <<>> >> }

Separators == { <<SP, "|", SP>>, <<"|">> }

InitDouble ==
    /\ single_pages \in SeqsUpTo(SinglePages, MaxSinglePages)
    /\ arg_total_width \in 0..MaxTotalWidth
    /\ arg_separator \in Separators
    /\ double_pages = [called |-> FALSE, pages |-> <<>>]
    /\ IdleProgress /\ IdleTrack /\ IdleMenu /\ IdleWalk /\ IdleWrap /\ IdlePages /\ IdleNav

DoubleCall ==
    /\ ~double_pages.called
    /\ double_pages' =
          [called |-> TRUE,
           pages |-> create_double_pages_with_width(single_pages, arg_total_width,
                                                    arg_separator)]
    /\ UNCHANGED <<single_pages, arg_total_width, arg_separator, progVars, trackVars, menuVars, walkVars,
                   wrapVars, pageVars, navVars>>

NextDouble == DoubleCall

SpecDouble == InitDouble /\ [][NextDouble]_vars

(***************************************************************************)
(* Python floats.  A float is [bits, exp]: the binary digits of a natural  *)
(* number, first digit first and at most MantissaBits of them, and the     *)
(* power of two it is scaled by.  Every operation computes the exact       *)
(* result and rounds it to the nearest float, ties to even.  A loop over   *)
(* the digits is the k-fold iteration of a step on a record, computed by   *)
(* halving k; the one-element sets bind each record as a value.            *)
(***************************************************************************)
MantissaBits == 53

Zeros(n) == [k \in 1..n |-> 0]

\* The binary digits of a natural number, none for 0.
RECURSIVE Bits(_)
Bits(n) == IF n = 0 THEN <<>> ELSE Append(Bits(n \div 2), n % 2)

\* The number of a short digit sequence.
RECURSIVE BitsValue(_)
BitsValue(b) ==
    IF b = <<>> THEN 0 ELSE 2 * BitsValue(SubSeq(b, 1, Len(b) - 1)) + b[Len(b)]

StripZeros(b) ==
    IF \A k \in 1..Len(b) : b[k] = 0 THEN <<>>
    ELSE SubSeq(b, CHOOSE k \in 1..Len(b) : b[k] = 1 /\ \A j \in 1..(k - 1) : b[j] = 0,
                Len(b))

\* b + 1
Increment(b) ==
    IF \A k \in 1..Len(b) : b[k] = 1 THEN <<1>> \o Zeros(Len(b))
    ELSE LET p == CHOOSE k \in 1..Len(b) : b[k] = 0 /\ \A j \in (k + 1)..Len(b) : b[j] = 1
         IN  SubSeq(b, 1, p - 1) \o <<1>> \o Zeros(Len(b) - p)

\* The float nearest to (digits + a fraction) * 2^exp, the fraction being
\* non-zero exactly when sticky.
RoundToFloat(digits, exp, sticky) ==
    LET b == StripZeros(digits)
        n == Len(b)
        kept == SubSeq(b, 1, MantissaBits)
        rest == sticky \/ \E k \in (MantissaBits + 2)..n : b[k] = 1
        up == b[MantissaBits + 1] = 1 /\ (rest \/ kept[MantissaBits] = 1)
        m == IF up THEN Increment(kept) ELSE kept
    IN  IF n <= MantissaBits THEN [bits |-> b, exp |-> exp]
        ELSE IF Len(m) > MantissaBits
             THEN [bits |-> SubSeq(m, 1, MantissaBits), exp |-> exp + (n - MantissaBits) + 1]
             ELSE [bits |-> m, exp |-> exp + (n - MantissaBits)]

\* float(n) of a small int
FromInt(n) == [bits |-> Bits(n), exp |-> 0]

\* One digit of the long division by n: st.rest are the digits of the
\* dividend still to come, st.r the remainder, st.q the quotient so far.
\* The division is over when the dividend is used up and either nothing
\* remains or the quotient has a digit more than rounding looks at.
DivStep(st, n) ==
    LET r2 == 2 * st.r + (IF st.rest = <<>> THEN 0 ELSE Head(st.rest))
        bit == IF r2 >= n THEN 1 ELSE 0
    IN  IF st.rest = <<>> /\ (st.r = 0 \/ Len(st.q) >= MantissaBits + 2) THEN st
        ELSE [rest |-> IF st.rest = <<>> THEN <<>> ELSE Tail(st.rest),
              r |-> r2 - n * bit,
              q |-> IF st.q = <<>> /\ bit = 0 THEN <<>> ELSE Append(st.q, bit),
              exp |-> IF st.rest = <<>> THEN st.exp - 1 ELSE st.exp]

\* k steps of the division
RECURSIVE DivRun(_, _, _)
DivRun(st, n, k) ==
    IF k = 0 THEN st
    ELSE IF k = 1 THEN DivStep(st, n)
    ELSE CHOOSE out \in {DivRun(mid, n, k - k \div 2) :
                         mid \in {DivRun(st, n, k \div 2)}} : TRUE

\* x / n for a float x and an int n > 0
FloatDiv(x, n) ==
    LET end == DivRun([rest |-> x.bits, r |-> 0, q |-> <<>>, exp |-> x.exp], n,
                      Len(x.bits) + Len(Bits(n)) + MantissaBits + 2)
    IN  CHOOSE out \in {RoundToFloat(st.q, st.exp, st.r /= 0) : st \in {end}} : TRUE

\* One digit of the product by k, last digit first.
MulStep(st, k) ==
    LET v == st.rest[Len(st.rest)] * k + st.carry
    IN  [rest |-> SubSeq(st.rest, 1, Len(st.rest) - 1),
         carry |-> v \div 2,
         out |-> <<v % 2>> \o st.out]

\* j steps of the product
RECURSIVE MulRun(_, _, _)
MulRun(st, k, j) ==
    IF j = 0 THEN st
    ELSE IF j = 1 THEN MulStep(st, k)
    ELSE CHOOSE out \in {MulRun(mid, k, j - j \div 2) :
                         mid \in {MulRun(st, k, j \div 2)}} : TRUE

\* x * k for a float x and an int k
FloatMul(x, k) ==
    LET end == MulRun([rest |-> x.bits, carry |-> 0, out |-> <<>>], k, Len(x.bits))
    IN  CHOOSE out \in {RoundToFloat(Bits(st.carry) \o st.out, x.exp, FALSE) :
                         st \in {end}} : TRUE

\* One digit of the sum of two digit sequences of equal length.
AddStep(st) ==
    LET v == st.a[Len(st.a)] + st.b[Len(st.b)] + st.carry
    IN  [a |-> SubSeq(st.a, 1, Len(st.a) - 1),
         b |-> SubSeq(st.b, 1, Len(st.b) - 1),
         carry |-> v \div 2,
         out |-> <<v % 2>> \o st.out]

\* j steps of the sum
RECURSIVE AddRun(_, _)
AddRun(st, j) ==
    IF j = 0 THEN st
    ELSE IF j = 1 THEN AddStep(st)
    ELSE CHOOSE out \in {AddRun(mid, j - j \div 2) : mid \in {AddRun(st, j \div 2)}} : TRUE

\* x + y
FloatAdd(x, y) ==
    LET e == Min(x.exp, y.exp)
        xa == x.bits \o Zeros(x.exp - e)
        ya == y.bits \o Zeros(y.exp - e)
        n == Max(Len(xa), Len(ya))
        end == AddRun([a |-> Zeros(n - Len(xa)) \o xa, b |-> Zeros(n - Len(ya)) \o ya,
                       carry |-> 0, out |-> <<>>], n)
    IN  CHOOSE out \in {RoundToFloat(Bits(st.carry) \o st.out, e, FALSE) :
                         st \in {end}} : TRUE

\* int(x) for a float x >= 0
FloatToInt(x) ==
    IF x.exp >= 0 THEN BitsValue(x.bits \o Zeros(x.exp))
    ELSE BitsValue(SubSeq(x.bits, 1, Len(x.bits) + x.exp))

(***************************************************************************)
(* The progress record of get_current_pages, and SpecProgress: one         *)
(* computation of it from a clamped position.                              *)
(***************************************************************************)
\* int((current_page / len(pages) * 100)) if pages else 0
chapter_progress(page, npages) ==
    IF npages > 0 THEN FloatToInt(FloatMul(FloatDiv(FromInt(page), npages), 100)) ELSE 0

\* A mutant of overall_progress: the share of the chapters before the
\* current one is left out.
overall_progress_in_chapter(chapter, cp, total_chapters) ==
    FloatToInt(FloatMul(FloatDiv(FloatDiv(FromInt(cp), 100), total_chapters), 100))

\* int(((current_chapter / total_chapters)
\*      + (chapter_progress / 100 / total_chapters)) * 100)
overall_progress(chapter, cp, total_chapters) ==
    FloatToInt(FloatMul(FloatAdd(FloatDiv(FromInt(chapter), total_chapters),
                                 FloatDiv(FloatDiv(FromInt(cp), 100), total_chapters)),
                        100))

MaxChapterPages == 50
MaxChapters == 3

\* Positions as get_current_pages has them after its clamp.
Positions ==
    { [page |-> p, pages |-> n, chapter |-> c, chapters |-> t] :
        p \in 0..(MaxChapterPages - 1), n \in 0..MaxChapterPages,
        c \in 0..(MaxChapters - 1), t \in 1..MaxChapters }

InitProgress ==
    /\ position \in {x \in Positions : x.page <= Max(0, x.pages - 1) /\ x.chapter < x.chapters}
    /\ progress_info = [called |-> FALSE]
    /\ IdleDouble /\ IdleTrack /\ IdleMenu /\ IdleWalk /\ IdleWrap /\ IdlePages /\ IdleNav

ProgressCall ==
    /\ ~progress_info.called
    /\ LET cp == chapter_progress(position.page, position.pages)
       IN  progress_info' =
              [called |-> TRUE,
               chapter_progress |-> cp,
               overall_progress |-> overall_progress(position.chapter, cp, position.chapters),
               total_chapters |-> position.chapters]
    /\ UNCHANGED <<position, dblVars, trackVars, menuVars, walkVars, wrapVars, pageVars,
                   navVars>>

NextProgress == ProgressCall

SpecProgress == InitProgress /\ [][NextProgress]_vars

(***************************************************************************)
(* Layout: DisplayCalculator and the default configuration.                *)
(***************************************************************************)
PANEL_BORDER == 4
PANEL_PADDING_Y == 1
PANEL_EXTRA_HEIGHT == 3
PANEL_HEIGHT_OFFSET == 0

\* config.reading.get("double_page_separator", " | ")
Separator == <<SP, "|", SP>>

\* _get_responsive_padding_x with the default breakpoints.
ResponsivePaddingX(terminal_width) ==
    IF terminal_width <= 80 THEN 2
    ELSE IF terminal_width <= 120 THEN 8
    ELSE IF terminal_width <= 160 THEN 20
    ELSE IF terminal_width <= 9999 THEN 35
    ELSE 30

\* get_display_dimensions: text_width and visible_height.
TextWidth(terminal_width) ==
    (terminal_width - PANEL_BORDER) - ResponsivePaddingX(terminal_width) * 2

VisibleHeight(terminal_height) ==
    terminal_height - PANEL_EXTRA_HEIGHT - PANEL_HEIGHT_OFFSET - PANEL_PADDING_Y * 2

\* get_double_page_mode: no default breakpoint sets double_page_mode.
get_double_page_mode(terminal_width) == FALSE

effective_double_page_mode(ov, terminal_width) ==
    IF ov /= "unset" THEN ov = "on" ELSE get_double_page_mode(terminal_width)

\* The page sequence of a chapter text, as get_current_pages, prev_page and
\* goto_end compute it; raised when wrap_text_to_width raises.
ChapterPages(content, text_width, vh, double_page) ==
    LET w == IF double_page
             THEN Max(20, ((text_width - Len(Separator)) \div 2) - 2)
             ELSE text_width
        Paged(r) ==
            IF r.raised THEN [raised |-> TRUE, pages |-> <<>>]
            ELSE [raised |-> FALSE,
                  pages |-> IF double_page
                            THEN create_double_pages_with_width(create_pages(r.lines, vh),
                                                                text_width, Separator)
                            ELSE create_pages(r.lines, vh)]
    IN  CHOOSE out \in {Paged(r) : r \in {wrap_text_to_width(content, w)}} : TRUE

\* get_current_chapter()["content"]
ChapterContent(c) == IF 0 <= c /\ c < Len(book) THEN book[c + 1] ELSE <<>>

(***************************************************************************)
(* Spec: the event loop of UIController.run over ReadingState.             *)
(*   pc = "open"    run has not yet loaded the bookmark;                   *)
(*   pc = "render"  _display_current_page is about to compute the pages;   *)
(*   pc = "key"     the page is shown, get_key is waiting;                 *)
(*   pc = "crashed" an exception left the loop.                            *)
(* The terminal may be resized at any moment.  trace holds the last key    *)
(* event that was handled: the key, the position before and after,         *)
(* whether the layout at the key press was the one the page on screen was   *)
(* rendered with (stable) and whether the render that followed used that   *)
(* layout again (kept).                                                    *)
(***************************************************************************)
TermWidths == {11}

TermHeights == {6, 7}

\* "a a\na\na", "" and "a\n\na a"; "a" and "a a\na\na".
Books ==
    { << <<"a", SP, "a", NL, "a", NL, "a">>, <<>>, <<"a", NL, NL, "a", SP, "a">> >>,
      << <<"a">>, <<"a", SP, "a", NL, "a", NL, "a">> >> }

NoPrior == [key |-> "none", fromC |-> 0, fromP |-> 0]

NoEvent == [key |-> "none", fromC |-> 0, fromP |-> 0, toC |-> 0, toP |-> 0,
            ret |-> FALSE, stable |-> FALSE, kept |-> FALSE, prior |-> NoPrior]

\* The largest page index of a record an earlier session left on disk.
MaxStoredPage == 7

\* The bookmark file when the book is opened: no record, or the record of an
\* earlier session, written under another layout or for another edition of
\* the book (records are filed under the book's title).
StoredBookmarks ==
    { NoBookmark,
      [exists |-> TRUE, chapter |-> 0, page |-> -1],
      [exists |-> TRUE, chapter |-> 1, page |-> MaxStoredPage],
      [exists |-> TRUE, chapter |-> 2, page |-> 0] }

Init ==
    /\ book \in Books
    /\ current_chapter = 0 /\ current_page = 0
    /\ override = "unset"
    /\ termW \in TermWidths /\ termH \in TermHeights
    /\ pc = "open"
    /\ rPages = <<>> /\ rTextWidth = 0 /\ rVisibleHeight = 0
    /\ bookmark \in StoredBookmarks
    /\ trace = NoEvent
    /\ IdleWrap /\ IdlePages /\ IdleCalc

DoublePageNow == effective_double_page_mode(override, termW)

\* The page on screen was rendered with the layout the terminal has now.
StableNow == TextWidth(termW) = rTextWidth /\ VisibleHeight(termH) = rVisibleHeight

\* The trace after a handled key that leaves the position at (c, p).  prior
\* is the page turn handled just before, when the layout has been the same
\* from the render before that page turn up to this key press.
\* ret is what the method behind the key returned.
LoggedWith(key, c, p, ret) ==
    [key |-> key, fromC |-> current_chapter, fromP |-> current_page,
     toC |-> c, toP |-> p, ret |-> ret, stable |-> StableNow, kept |-> FALSE,
     prior |-> IF /\ trace.key \in {"next_page", "prev_page", "end"}
                  /\ trace.stable /\ trace.kept /\ StableNow
               THEN [key |-> trace.key, fromC |-> trace.fromC, fromP |-> trace.fromP]
               ELSE NoPrior]

Logged(key, c, p) == LoggedWith(key, c, p, TRUE)

\* The trace after a render with text_width and vh: the last event is marked
\* when the render before it had the same layout.
Marked(text_width, vh) ==
    [trace EXCEPT !.kept = (trace.key /= "none" /\ text_width = rTextWidth
                            /\ vh = rVisibleHeight)]

Resize ==
    /\ pc \in {"render", "key"}
    /\ \E w \in TermWidths, h \in TermHeights :
          /\ <<w, h>> /= <<termW, termH>>
          /\ termW' = w /\ termH' = h
    /\ UNCHANGED <<book, current_chapter, current_page, override, pc, rPages,
                   rTextWidth, rVisibleHeight, bookmark, trace, wrapVars, pageVars, calcVars>>

\* A mutant of the clamp of get_current_pages: only negative indices are
\* brought into range.
ClampPageLow(p, n) == Max(0, p)

\* get_current_pages: current_page = max(0, min(current_page, len(pages) - 1))
ClampPage(p, n) == Max(0, Min(p, n - 1))

\* _display_current_page up to get_key: get_display_dimensions, then
\* get_current_pages, which clamps current_page into the page sequence.
Render ==
    /\ pc = "render"
    /\ LET text_width == TextWidth(termW)
           vh == VisibleHeight(termH)
       IN  \E r \in {ChapterPages(ChapterContent(current_chapter), text_width, vh,
                                  DoublePageNow)} :
           IF r.raised
           THEN /\ pc' = "crashed"
                /\ UNCHANGED <<current_page, rPages, rTextWidth, rVisibleHeight, trace>>
           ELSE /\ current_page' = ClampPage(current_page, Len(r.pages))
                /\ rPages' = r.pages
                /\ rTextWidth' = text_width
                /\ rVisibleHeight' = vh
                /\ trace' = Marked(text_width, vh)
                /\ pc' = "key"
    /\ UNCHANGED <<book, current_chapter, override, termW, termH, bookmark,
                   wrapVars, pageVars, calcVars>>

\* A mutant of next_page: the last page index is taken one too large.
next_page_past_end(pgs, p) == IF p < Len(pgs) THEN [moved |-> TRUE, page |-> p + 1]
                              ELSE [moved |-> FALSE, page |-> p]

\* PageManager.next_page
next_page(pgs, p) == IF p < Len(pgs) - 1 THEN [moved |-> TRUE, page |-> p + 1]
                     ELSE [moved |-> FALSE, page |-> p]

\* A mutant of next_chapter: the following chapter is never entered.
next_chapter_stay(c, p) == [moved |-> FALSE, chapter |-> c, page |-> p]

\* ReadingState.next_chapter
next_chapter(c, p) ==
    IF c < Len(book) - 1 THEN [moved |-> TRUE, chapter |-> c + 1, page |-> 0]
    ELSE [moved |-> FALSE, chapter |-> c, page |-> p]

\* A mutant of prev_chapter: the page index is not reset.
prev_chapter_keep_page(c, p) ==
    IF c > 0 THEN [moved |-> TRUE, chapter |-> c - 1, page |-> p]
    ELSE [moved |-> FALSE, chapter |-> c, page |-> p]

\* ReadingState.prev_chapter
prev_chapter(c, p) ==
    IF c > 0 THEN [moved |-> TRUE, chapter |-> c - 1, page |-> 0]
    ELSE [moved |-> FALSE, chapter |-> c, page |-> p]

\* A mutant of prev_page: the previous chapter is entered at its first page.
prev_page_first(c, p, text_width, vh, double_page) ==
    IF p > 0 THEN [raised |-> FALSE, chapter |-> c, page |-> p - 1]
    ELSE IF c > 0 THEN [raised |-> FALSE, chapter |-> c - 1, page |-> 0]
    ELSE [raised |-> FALSE, chapter |-> c, page |-> p]

\* A mutant of LastPageOf: the chapter is entered one page before its last.
LastPageOfButOne(c, r) ==
    [raised |-> r.raised, chapter |-> c,
     page |-> IF Len(r.pages) > 1 THEN Len(r.pages) - 2 ELSE 0]

\* The position on the last page of chapter c, whose pages are r.pages (the
\* first page when there is none).
LastPageOf(c, r) ==
    [raised |-> r.raised, chapter |-> c,
     page |-> IF r.pages /= <<>> THEN Len(r.pages) - 1 ELSE 0]

\* PageManager.prev_page: text_width and visible_height are those of the
\* last render, the double-page mode is looked up afresh.
prev_page(c, p, text_width, vh, double_page) ==
    IF p > 0 THEN [raised |-> FALSE, chapter |-> c, page |-> p - 1]
    ELSE IF c > 0
         THEN CHOOSE t \in {LastPageOf(c - 1, r) :
                            r \in {ChapterPages(ChapterContent(c - 1), text_width, vh,
                                                double_page)}} : TRUE
    ELSE [raised |-> FALSE, chapter |-> c, page |-> p]

\* A mutant of goto_end: the last chapter is entered at its first page.
goto_end_first(text_width, vh, double_page) ==
    [raised |-> FALSE, chapter |-> Len(book) - 1, page |-> 0]

\* ReadingState.goto_end
goto_end(text_width, vh, double_page) ==
    CHOOSE t \in {LastPageOf(Len(book) - 1, r) :
                  r \in {ChapterPages(ChapterContent(Len(book) - 1), text_width, vh,
                                      double_page)}} : TRUE

\* _handle_next_page: next_page, and next_chapter when it did not move.
KeyNextPage ==
    /\ pc = "key"
    /\ LET n == next_page(rPages, current_page)
           t == IF n.moved
                THEN [moved |-> TRUE, chapter |-> current_chapter, page |-> n.page]
                ELSE next_chapter(current_chapter, current_page)
       IN  /\ current_chapter' = t.chapter
           /\ current_page' = t.page
           /\ trace' = Logged("next_page", t.chapter, t.page)
    /\ pc' = "render"
    /\ UNCHANGED <<book, override, termW, termH, rPages, rTextWidth, rVisibleHeight,
                   bookmark, wrapVars, pageVars, calcVars>>

\* _handle_prev_page
KeyPrevPage ==
    /\ pc = "key"
    /\ \E t \in {prev_page(current_chapter, current_page, rTextWidth, rVisibleHeight,
                           DoublePageNow)} :
           /\ current_chapter' = t.chapter
           /\ IF t.raised
              THEN pc' = "crashed" /\ UNCHANGED <<current_page, trace>>
              ELSE /\ current_page' = t.page
                   /\ trace' = Logged("prev_page", t.chapter, t.page)
                   /\ pc' = "render"
    /\ UNCHANGED <<book, override, termW, termH, rPages, rTextWidth, rVisibleHeight,
                   bookmark, wrapVars, pageVars, calcVars>>

KeyNextChapter ==
    /\ pc = "key"
    /\ LET t == next_chapter(current_chapter, current_page)
       IN  /\ current_chapter' = t.chapter
           /\ current_page' = t.page
           /\ trace' = LoggedWith("next_chapter", t.chapter, t.page, t.moved)
    /\ pc' = "render"
    /\ UNCHANGED <<book, override, termW, termH, rPages, rTextWidth, rVisibleHeight,
                   bookmark, wrapVars, pageVars, calcVars>>

KeyPrevChapter ==
    /\ pc = "key"
    /\ LET t == prev_chapter(current_chapter, current_page)
       IN  /\ current_chapter' = t.chapter
           /\ current_page' = t.page
           /\ trace' = LoggedWith("prev_chapter", t.chapter, t.page, t.moved)
    /\ pc' = "render"
    /\ UNCHANGED <<book, override, termW, termH, rPages, rTextWidth, rVisibleHeight,
                   bookmark, wrapVars, pageVars, calcVars>>

\* goto_start
KeyStart ==
    /\ pc = "key"
    /\ current_chapter' = 0
    /\ current_page' = 0
    /\ trace' = Logged("start", 0, 0)
    /\ pc' = "render"
    /\ UNCHANGED <<book, override, termW, termH, rPages, rTextWidth, rVisibleHeight,
                   bookmark, wrapVars, pageVars, calcVars>>

\* goto_end(text_width, visible_height) with the values of the last render.
KeyEnd ==
    /\ pc = "key"
    /\ \E t \in {goto_end(rTextWidth, rVisibleHeight, DoublePageNow)} :
           /\ current_chapter' = t.chapter
           /\ IF t.raised
              THEN pc' = "crashed" /\ UNCHANGED <<current_page, trace>>
              ELSE /\ current_page' = t.page
                   /\ trace' = Logged("end", t.chapter, t.page)
                   /\ pc' = "render"
    /\ UNCHANGED <<book, override, termW, termH, rPages, rTextWidth, rVisibleHeight,
                   bookmark, wrapVars, pageVars, calcVars>>

\* ReadingState.is_valid_chapter
\* A mutant of is_valid_chapter: only negative indices are refused.
is_valid_chapter_nonneg(chapter_index) == 0 <= chapter_index

is_valid_chapter(chapter_index) == 0 <= chapter_index /\ chapter_index < Len(book)

\* A mutant of load_bookmark: the page of the record is not restored.
load_bookmark_chapter_only(c, p, bm) ==
    IF bm.exists /\ is_valid_chapter(bm.chapter)
    THEN [ret |-> TRUE, chapter |-> bm.chapter, page |-> 0]
    ELSE [ret |-> FALSE, chapter |-> c, page |-> p]

\* ReadingState.load_bookmark on the record bm that
\* BookmarkManager.load_bookmark returns.
load_bookmark(c, p, bm) ==
    IF bm.exists /\ is_valid_chapter(bm.chapter)
    THEN [ret |-> TRUE, chapter |-> bm.chapter, page |-> bm.page]
    ELSE [ret |-> FALSE, chapter |-> c, page |-> p]

\* UIController.run before its loop: the bookmark is loaded when the book
\* is opened (auto_load_bookmark_on_open).
OpenBook ==
    /\ pc = "open"
    /\ LET t == load_bookmark(current_chapter, current_page, bookmark)
       IN  /\ current_chapter' = t.chapter
           /\ current_page' = t.page
           /\ trace' = LoggedWith("open", t.chapter, t.page, t.ret)
    /\ pc' = "render"
    /\ UNCHANGED <<book, override, termW, termH, rPages, rTextWidth, rVisibleHeight,
                   bookmark, wrapVars, pageVars, calcVars>>

\* _handle_save_bookmark: save_bookmark overwrites the "current" record
\* with the position.
KeySaveBookmark ==
    /\ pc = "key"
    /\ bookmark' = [exists |-> TRUE, chapter |-> current_chapter, page |-> current_page]
    /\ trace' = Logged("bookmark_save", current_chapter, current_page)
    /\ pc' = "render"
    /\ UNCHANGED <<book, current_chapter, current_page, override, termW, termH, rPages,
                   rTextWidth, rVisibleHeight, wrapVars, pageVars, calcVars>>

\* _handle_goto_bookmark: has_bookmark, then load_bookmark.
KeyGotoBookmark ==
    /\ pc = "key"
    /\ LET t == load_bookmark(current_chapter, current_page, bookmark)
       IN  /\ current_chapter' = t.chapter
           /\ current_page' = t.page
           /\ trace' = LoggedWith("bookmark_goto", t.chapter, t.page, t.ret)
    /\ pc' = "render"
    /\ UNCHANGED <<book, override, termW, termH, rPages, rTextWidth, rVisibleHeight,
                   bookmark, wrapVars, pageVars, calcVars>>

\* A mutant of toggle_double_page_mode: a set override is left as it is.
toggle_double_page_mode_once(ov, terminal_width) ==
    IF ov = "unset"
    THEN (IF get_double_page_mode(terminal_width) THEN "off" ELSE "on")
    ELSE ov

\* ReadingState.toggle_double_page_mode: the new _double_page_override.
toggle_double_page_mode(ov, terminal_width) ==
    IF ov = "unset"
    THEN (IF get_double_page_mode(terminal_width) THEN "off" ELSE "on")
    ELSE (IF ov = "on" THEN "off" ELSE "on")

\* The toggle key: toggle_double_page_mode() with the terminal's width.
KeyToggleDoublePage ==
    /\ pc = "key"
    /\ override' = toggle_double_page_mode(override, termW)
    /\ trace' = Logged("toggle_double_page", current_chapter, current_page)
    /\ pc' = "render"
    /\ UNCHANGED <<book, current_chapter, current_page, termW, termH, rPages,
                   rTextWidth, rVisibleHeight, bookmark, wrapVars, pageVars, calcVars>>

Next ==
    \/ OpenBook
    \/ Resize
    \/ Render
    \/ KeySaveBookmark
    \/ KeyGotoBookmark
    \/ KeyNextPage
    \/ KeyPrevPage
    \/ KeyNextChapter
    \/ KeyPrevChapter
    \/ KeyStart
    \/ KeyEnd
    \/ KeyToggleDoublePage

Spec == Init /\ [][Next]_vars

(***************************************************************************)
(* SpecWalk: the event loop from (0, 0) under one layout, with next-page   *)
(* keys only and, once a next-page key has left the position where it was, *)
(* with previous-page keys only.  turned counts the keys of the direction. *)
(***************************************************************************)
\* The key presses of one direction: more than the pages of a book.
MaxWalkTurns == 10

Overrides == {"unset", "on", "off"}

\* The pages of chapter c under the layout of the terminal.
LaidOutPages(c) ==
    ChapterPages(ChapterContent(c), TextWidth(termW), VisibleHeight(termH),
                 DoublePageNow).pages

\* The number of pages of the chapters before chapter c.
RECURSIVE PagesBefore(_)
PagesBefore(c) == IF c = 0 THEN 0 ELSE PagesBefore(c - 1) + Len(LaidOutPages(c - 1))

TotalPages == PagesBefore(Len(book))

InitWalk ==
    /\ book \in Books
    /\ current_chapter = 0 /\ current_page = 0
    /\ override \in Overrides
    /\ termW \in TermWidths /\ termH \in TermHeights
    /\ pc = "render"
    /\ rPages = <<>> /\ rTextWidth = 0 /\ rVisibleHeight = 0
    /\ bookmark = NoBookmark
    /\ trace = NoEvent
    /\ phase = "forth" /\ turned = 0
    /\ IdleWrap /\ IdlePages /\ IdleDouble /\ IdleProgress /\ IdleTrack /\ IdleMenu

WalkFrame ==
    UNCHANGED <<book, override, termW, termH, bookmark, wrapVars, pageVars,
                dblVars, progVars, trackVars, menuVars>>

\* _display_current_page up to get_key
WalkRender ==
    /\ pc = "render"
    /\ \E r \in {ChapterPages(ChapterContent(current_chapter), TextWidth(termW),
                               VisibleHeight(termH), DoublePageNow)} :
          IF r.raised
          THEN /\ pc' = "crashed"
               /\ UNCHANGED <<current_page, rPages, rTextWidth, rVisibleHeight, trace>>
          ELSE /\ current_page' = ClampPage(current_page, Len(r.pages))
               /\ rPages' = r.pages
               /\ rTextWidth' = TextWidth(termW)
               /\ rVisibleHeight' = VisibleHeight(termH)
               /\ trace' = Marked(TextWidth(termW), VisibleHeight(termH))
               /\ pc' = "key"
    /\ UNCHANGED <<current_chapter, phase, turned>>
    /\ WalkFrame

\* a next-page key
WalkNextPage ==
    /\ pc = "key"
    /\ phase = "forth"
    /\ turned < MaxWalkTurns
    /\ \E n \in {next_page(rPages, current_page)} :
          \E t \in {IF n.moved
                     THEN [moved |-> TRUE, chapter |-> current_chapter, page |-> n.page]
                     ELSE next_chapter(current_chapter, current_page)} :
             /\ current_chapter' = t.chapter
             /\ current_page' = t.page
             /\ trace' = Logged("next_page", t.chapter, t.page)
    /\ turned' = turned + 1
    /\ pc' = "render"
    /\ UNCHANGED <<rPages, rTextWidth, rVisibleHeight, phase>>
    /\ WalkFrame

\* a previous-page key, the first one after a next-page key that stayed
WalkPrevPage ==
    /\ pc = "key"
    /\ \/ phase = "back" /\ turned < MaxWalkTurns
       \/ /\ phase = "forth" /\ trace.key = "next_page"
          /\ trace.fromC = trace.toC /\ trace.fromP = trace.toP
    /\ \E t \in {prev_page(current_chapter, current_page, rTextWidth, rVisibleHeight,
                           DoublePageNow)} :
          /\ current_chapter' = t.chapter
          /\ IF t.raised
             THEN pc' = "crashed" /\ UNCHANGED <<current_page, trace>>
             ELSE /\ current_page' = t.page
                  /\ trace' = Logged("prev_page", t.chapter, t.page)
                  /\ pc' = "render"
    /\ phase' = "back"
    /\ turned' = IF phase = "back" THEN turned + 1 ELSE 1
    /\ UNCHANGED <<rPages, rTextWidth, rVisibleHeight>>
    /\ WalkFrame

NextWalk == WalkRender \/ WalkNextPage \/ WalkPrevPage

SpecWalk == InitWalk /\ [][NextWalk]_vars

(***************************************************************************)
(* SpecTurn: page and chapter keys over the position record of             *)
(* get_current_pages.  A chapter is its number of pages under the layout;  *)
(* the chapter a key enters has any number of pages up to MaxTurnPages.    *)
(* Every key is followed by the render, which computes the progress.       *)
(***************************************************************************)
MaxTurnPages == 12

\* n pages, whose lines do not matter to the progress.
PagesOfCount(n) == [k \in 1..n |-> <<>>]

TurnPositions ==
    {x \in Positions : x.pages <= MaxTurnPages /\ x.page <= Max(0, x.pages - 1)
                                               /\ x.chapter < x.chapters}

InitTurn ==
    /\ position \in TurnPositions
    /\ progress_info = [called |-> FALSE]
    /\ book = PagesOfCount(position.chapters)
    /\ current_chapter = 0 /\ current_page = 0
    /\ override = "unset" /\ termW = 80 /\ termH = 24
    /\ pc = "idle" /\ rPages = <<>> /\ rTextWidth = 0 /\ rVisibleHeight = 0
    /\ bookmark = NoBookmark
    /\ trace = [key |-> "none"]
    /\ IdleDouble /\ IdleTrack /\ IdleMenu /\ IdleWalk /\ IdleWrap /\ IdlePages

\* get_current_pages at chapter c, page p of a chapter of n pages: the clamp
\* and the progress record.
Shown(key, c, p, n) ==
    /\ position' = [page |-> ClampPage(p, n), pages |-> n, chapter |-> c,
                    chapters |-> position.chapters]
    /\ \E cp \in {chapter_progress(ClampPage(p, n), n)} :
          progress_info' =
              [called |-> TRUE,
               chapter_progress |-> cp,
               overall_progress |-> overall_progress(c, cp, position.chapters),
               total_chapters |-> position.chapters]
    /\ trace' = [key |-> key]
    /\ UNCHANGED <<book, current_chapter, current_page, override, termW, termH, pc,
                   rPages, rTextWidth, rVisibleHeight, bookmark>>
    /\ UNCHANGED <<dblVars, trackVars, menuVars, walkVars, wrapVars, pageVars>>

\* the first render
TurnShow ==
    /\ ~progress_info.called
    /\ Shown("none", position.chapter, position.page, position.pages)

\* _handle_next_page and the render after it
TurnNextPage ==
    /\ progress_info.called
    /\ \E m \in {next_page(PagesOfCount(position.pages), position.page)} :
          IF m.moved
          THEN Shown("next_page", position.chapter, m.page, position.pages)
          ELSE \E t \in {next_chapter(position.chapter, position.page)} :
                  IF t.moved
                  THEN \E n \in 0..MaxTurnPages : Shown("next_page", t.chapter, t.page, n)
                  ELSE Shown("next_page", t.chapter, t.page, position.pages)

\* _handle_prev_page and the render after it
TurnPrevPage ==
    /\ progress_info.called
    /\ IF position.page > 0
       THEN Shown("prev_page", position.chapter, position.page - 1, position.pages)
       ELSE IF position.chapter > 0
            THEN \E n \in 0..MaxTurnPages :
                    \E t \in {LastPageOf(position.chapter - 1,
                                         [raised |-> FALSE, pages |-> PagesOfCount(n)])} :
                       Shown("prev_page", t.chapter, t.page, n)
            ELSE Shown("prev_page", position.chapter, position.page, position.pages)

\* next_chapter and the render after it
TurnNextChapter ==
    /\ progress_info.called
    /\ \E t \in {next_chapter(position.chapter, position.page)} :
          IF t.moved
          THEN \E n \in 0..MaxTurnPages : Shown("next_chapter", t.chapter, t.page, n)
          ELSE Shown("next_chapter", t.chapter, t.page, position.pages)

\* prev_chapter and the render after it
TurnPrevChapter ==
    /\ progress_info.called
    /\ \E t \in {prev_chapter(position.chapter, position.page)} :
          IF t.moved
          THEN \E n \in 0..MaxTurnPages : Shown("prev_chapter", t.chapter, t.page, n)
          ELSE Shown("prev_chapter", t.chapter, t.page, position.pages)

NextTurn == TurnShow \/ TurnNextPage \/ TurnPrevPage \/ TurnNextChapter \/ TurnPrevChapter

SpecTurn == InitTurn /\ [][NextTurn]_vars

(***************************************************************************)
(* SpecMenu: the event loop with its two overlays, the chapter menu and    *)
(* the help screen, and without resizes.                                   *)
(*   pc = "menu"     show_chapter_list is set, display_chapter_menu waits  *)
(*                   for a key;                                            *)
(*   pc = "help"     show_help is set, display_help_screen is about to     *)
(*                   draw;                                                 *)
(*   pc = "crashed"  an exception has left run.                            *)
(***************************************************************************)
\* A record whose chapter is negative, besides the stored records of Spec.
MenuBookmarks == StoredBookmarks \cup {[exists |-> TRUE, chapter |-> -1, page |-> 0]}

InitMenu ==
    /\ book \in Books
    /\ current_chapter = 0 /\ current_page = 0
    /\ override = "unset"
    /\ termW \in TermWidths /\ termH \in TermHeights
    /\ pc = "open"
    /\ rPages = <<>> /\ rTextWidth = 0 /\ rVisibleHeight = 0
    /\ bookmark \in MenuBookmarks
    /\ trace = NoEvent
    /\ show_chapter_list = FALSE /\ show_help = FALSE
    /\ show_border \in BOOLEAN
    /\ opened_at = [chapter |-> 0, page |-> 0]
    /\ IdleWrap /\ IdlePages /\ IdleDouble /\ IdleProgress /\ IdleTrack /\ IdleWalk

\* What a menu or help step leaves alone.
MenuFrame ==
    UNCHANGED <<book, override, termW, termH, rPages, rTextWidth, rVisibleHeight,
                bookmark, show_border, wrapVars, pageVars, dblVars, progVars, trackVars,
                walkVars>>

\* _handle_reading_input on a chapter_menu key
KeyChapterMenu ==
    /\ pc = "key"
    /\ show_chapter_list' = TRUE
    /\ opened_at' = [chapter |-> current_chapter, page |-> current_page]
    /\ trace' = Logged("chapter_menu", current_chapter, current_page)
    /\ pc' = "menu"
    /\ UNCHANGED <<current_chapter, current_page, show_help>>
    /\ MenuFrame

\* display_chapter_menu returns (False, new_chapter) on an up or down key and
\* run assigns it to current_chapter.
MenuMove(key, new_chapter) ==
    /\ pc = "menu"
    /\ current_chapter' = new_chapter
    /\ trace' = Logged(key, new_chapter, current_page)
    /\ UNCHANGED <<current_page, pc, show_chapter_list, show_help, opened_at>>
    /\ MenuFrame

MenuDown == MenuMove("chapter_menu_down", Min(current_chapter + 1, Len(book) - 1))

MenuUp == MenuMove("chapter_menu_up", Max(current_chapter - 1, 0))

\* display_chapter_menu returns (True, current_chapter) on a close key and on
\* the select key alike; run clears show_chapter_list and resets the page.
MenuLeave(key) ==
    /\ pc = "menu"
    /\ show_chapter_list' = FALSE
    /\ current_page' = 0
    /\ trace' = Logged(key, current_chapter, 0)
    /\ pc' = "render"
    /\ UNCHANGED <<current_chapter, show_help, opened_at>>
    /\ MenuFrame

MenuClose == MenuLeave("chapter_menu_close")

MenuSelect == MenuLeave("chapter_menu_select")

\* display_help_screen: the title block after the if/else reads padding_x,
\* which only the else branch (show_border false) assigns, so with a border
\* it raises UnboundLocalError; without one it draws and waits for a key.
display_help_screen == IF show_border THEN "raised" ELSE "returned"

\* _handle_reading_input on a help key
KeyHelp ==
    /\ pc = "key"
    /\ show_help' = TRUE
    /\ trace' = Logged("help", current_chapter, current_page)
    /\ pc' = "help"
    /\ UNCHANGED <<current_chapter, current_page, show_chapter_list, opened_at>>
    /\ MenuFrame

\* run with show_help set: the help screen, one key press, show_help cleared
HelpScreen ==
    /\ pc = "help"
    /\ IF display_help_screen = "raised"
       THEN pc' = "crashed" /\ UNCHANGED <<show_help, trace>>
       ELSE /\ show_help' = FALSE
            /\ trace' = Logged("help_return", current_chapter, current_page)
            /\ pc' = "render"
    /\ UNCHANGED <<current_chapter, current_page, show_chapter_list, opened_at>>
    /\ MenuFrame

\* display_chapter_menu on a help key: the help screen, then (False,
\* current_chapter)
MenuHelp ==
    /\ pc = "menu"
    /\ IF display_help_screen = "raised"
       THEN pc' = "crashed" /\ UNCHANGED trace
       ELSE /\ trace' = Logged("chapter_menu_help", current_chapter, current_page)
            /\ pc' = "menu"
    /\ UNCHANGED <<current_chapter, current_page, show_chapter_list, show_help, opened_at>>
    /\ MenuFrame

NextMenu ==
    \/ OpenBook
    \/ Render
    \/ KeyGotoBookmark
    \/ KeyNextPage
    \/ KeyPrevPage
    \/ KeyNextChapter
    \/ KeyPrevChapter
    \/ KeyStart
    \/ KeyEnd
    \/ KeyChapterMenu
    \/ MenuDown
    \/ MenuUp
    \/ MenuClose
    \/ MenuSelect
    \/ MenuHelp
    \/ KeyHelp
    \/ HelpScreen

SpecMenu == InitMenu /\ [][NextMenu]_vars

(***************************************************************************)
(* Properties of page navigation (checked under Spec).  They are read in   *)
(* the state right after a key was handled (pc = "render"), where          *)
(* rTextWidth and rVisibleHeight are still those of the page the key was   *)
(* pressed on; trace.stable says the terminal had that layout at the key.  *)
(***************************************************************************)
JustHandled(key) == pc = "render" /\ trace.key = key /\ trace.stable

\* The number of pages of chapter c under the layout of the last render.
PageCount(c) ==
    Len(ChapterPages(ChapterContent(c), rTextWidth, rVisibleHeight, DoublePageNow).pages)

AtPosition(c, p) ==
    trace.toC = c /\ trace.toP = p /\ current_chapter = c /\ current_page = p

\* C8: under unchanged layout a next-page key takes (c, p) to (c, p+1) when p
\* is not the last page index of chapter c, to (c+1, 0) when it is and c is
\* not the last chapter, and leaves the last page of the last chapter.
C8_NextPageEvent ==
    JustHandled("next_page") =>
       LET c == trace.fromC
           p == trace.fromP
       IN  IF p /= PageCount(c) - 1 THEN AtPosition(c, p + 1)
           ELSE IF c < Len(book) - 1 THEN AtPosition(c + 1, 0)
           ELSE AtPosition(c, p)

\* A next-page key on the last page of a chapter of several pages has
\* entered the following chapter.
C8_Witness ==
    /\ JustHandled("next_page")
    /\ PageCount(trace.fromC) > 1
    /\ trace.fromP = PageCount(trace.fromC) - 1
    /\ current_chapter = trace.fromC + 1 /\ current_page = 0

\* C9: under unchanged layout a previous-page key takes (c, p) to (c, p-1)
\* when p > 0, to the last page of chapter c-1 (under the current layout and
\* double-page mode) when p = 0 and c > 0, and leaves (0, 0).
C9_PrevPageEvent ==
    JustHandled("prev_page") =>
       LET c == trace.fromC
           p == trace.fromP
       IN  IF p > 0 THEN AtPosition(c, p - 1)
           ELSE IF c > 0 THEN AtPosition(c - 1, PageCount(c - 1) - 1)
           ELSE AtPosition(0, 0)

\* A previous-page key on page 0 has entered a previous chapter of several
\* pages at its last page, in double-page mode.
C9_Witness ==
    /\ JustHandled("prev_page")
    /\ trace.fromP = 0 /\ trace.fromC > 0
    /\ DoublePageNow
    /\ current_chapter = trace.fromC - 1 /\ current_page >= 1

\* A previous-page key was handled right after a next-page key pressed at
\* position (c, p) of a chapter of more than one page, the layout unchanged.
NextThenPrev ==
    /\ JustHandled("prev_page")
    /\ trace.prior.key = "next_page"
    /\ PageCount(trace.prior.fromC) > 1

AtEndOfBook(c, p) == c = Len(book) - 1 /\ p = PageCount(c) - 1

\* C10 (as claimed): next-page then previous-page restores (c, p) from every
\* position of a chapter of more than one page.
C10_RoundTripEverywhere ==
    NextThenPrev => AtPosition(trace.prior.fromC, trace.prior.fromP)

\* C10 (amended): the round trip restores (c, p) from every position but
\* the last page of the last chapter; there next-page does nothing and the
\* previous-page key ends on the page before, (c, N-2).
C10_RoundTripButAtEnd ==
    NextThenPrev =>
       IF AtEndOfBook(trace.prior.fromC, trace.prior.fromP)
       THEN AtPosition(trace.prior.fromC, trace.prior.fromP - 1)
       ELSE AtPosition(trace.prior.fromC, trace.prior.fromP)

\* The round trip was made across a chapter boundary: from the last page of
\* a chapter into the next chapter and back.
C10_Witness ==
    /\ NextThenPrev
    /\ trace.prior.fromP = PageCount(trace.prior.fromC) - 1
    /\ trace.fromC = trace.prior.fromC + 1
    /\ AtPosition(trace.prior.fromC, trace.prior.fromP)

(***************************************************************************)
(* Properties of the page fetch and of the bookmark (checked under Spec).  *)
(***************************************************************************)
\* The page is on screen: _display_current_page has picked
\* pages[current_page] from the pages it computed.
PageShown == pc = "key"

\* C11: whenever a page is shown, the pages are those of the current
\* chapter under the layout of that render and the double-page mode in
\* force, and the index that picked the page lies in 0 .. len(pages) - 1
\* (it is 0 when there is no page).
C11_PageIndexInRange ==
    PageShown =>
       /\ rPages = ChapterPages(ChapterContent(current_chapter), rTextWidth,
                                rVisibleHeight, DoublePageNow).pages
       /\ 0 <= current_page
       /\ current_page <= Max(0, Len(rPages) - 1)

\* A bookmark whose page lies beyond the chapter was loaded, and the page
\* shown after it is the last page of the chapter.
C11_Witness ==
    /\ PageShown
    /\ trace.key \in {"open", "bookmark_goto"}
    /\ trace.ret
    /\ trace.toP > Len(rPages) - 1
    /\ current_page = Len(rPages) - 1

\* The key just shown the result of was a previous-page key on page 0 of a
\* chapter c > 0, or a goto-end key.
LandedOnLastPage ==
    \/ trace.key = "end"
    \/ trace.key = "prev_page" /\ trace.fromP = 0 /\ trace.fromC > 0

\* C12: when the terminal was resized between a render and the key press
\* that followed, a previous-page key that enters chapter c-1 and a goto-end
\* key still lead to the last page: the page shown by the next render is
\* the last page of the chapter under the layout of that render.
C12_LastPageAfterResize ==
    (PageShown /\ LandedOnLastPage /\ ~trace.stable) =>
       current_page = Len(rPages) - 1

(***************************************************************************)
(* Properties of create_double_pages_with_width (checked under             *)
(* SpecDouble).                                                            *)
(***************************************************************************)
ColumnWidth == (arg_total_width - Len(arg_separator)) \div 2

\* The line j of page k of the input, "" below the page's last line.
SingleLine(k, j) ==
    IF k <= Len(single_pages) /\ j <= Len(single_pages[k]) THEN single_pages[k][j]
    ELSE <<>>

\* row ends with the separator followed by n spaces and nothing else.
EndsBlank(row, n) ==
    LET tail == arg_separator \o Blanks(n)
    IN  /\ Len(row) >= Len(tail)
        /\ SubSeq(row, Len(row) - Len(tail) + 1, Len(row)) = tail

\* C13: create_double_pages_with_width returns ceil(len(pages) / 2) double
\* pages; double page k has in each row the line of page 2k in its left
\* column and the line of page 2k+1 in its right column; when len(pages) is
\* odd, the last double page is as high as its left page and the right
\* column of each of its rows is column_width spaces.
C13_DoublePageCount ==
    double_pages.called =>
       LET n == Len(single_pages)
           d == double_pages.pages
       IN  /\ Len(d) = (n + 1) \div 2
           /\ \A k \in 1..Len(d) : \A j \in 1..Len(d[k]) :
                  d[k][j] = format_line_for_column(SingleLine(2 * k - 1, j), ColumnWidth)
                            \o arg_separator
                            \o format_line_for_column(SingleLine(2 * k, j), ColumnWidth)
           /\ n % 2 = 1 =>
                  /\ Len(d[Len(d)]) = Len(single_pages[n])
                  /\ \A j \in 1..Len(d[Len(d)]) : EndsBlank(d[Len(d)][j], ColumnWidth)

\* Three pages of two lines and a column of two characters: the second
\* double page has the third page on its left and a blank right column.
C13_Witness ==
    /\ double_pages.called
    /\ Len(single_pages) = 3
    /\ Len(single_pages[3]) = 2
    /\ ColumnWidth = 2
    /\ Len(double_pages.pages) = 2
    /\ Len(double_pages.pages[2][1]) = 2 * ColumnWidth + Len(arg_separator)

\* The characters of s outside its tag markers.
RECURSIVE OutsideMarkers(_, _)
OutsideMarkers(s, p) ==
    IF p > Len(s) THEN <<>>
    ELSE LET e == MatchEnd(s, p)
         IN  IF e = 0 THEN <<s[p]>> \o OutsideMarkers(s, p + 1)
             ELSE OutsideMarkers(s, e + 1)

\* No bracket of s is left outside a marker.
CompleteMarkers(s) ==
    \A k \in 1..Len(OutsideMarkers(s, 1)) : OutsideMarkers(s, 1)[k] \notin {"[", "]"}

\* Every double page has only complete tag markers in its rows, and
\* tracking its rows in order ends with no open tag.
DoublePagesValid ==
    \A k \in 1..Len(double_pages.pages) :
       /\ \A j \in 1..Len(double_pages.pages[k]) :
              CompleteMarkers(double_pages.pages[k][j])
       /\ track_open_tags(double_pages.pages[k]) = <<>>

\* No line of the single pages is wider, by its visible length, than a column.
AllLinesFit ==
    \A k \in 1..Len(single_pages) : \A j \in 1..Len(single_pages[k]) :
       VisibleLength(single_pages[k][j]) <= ColumnWidth

Handled(key) == pc = "render" /\ trace.key = key

\* C15: next_chapter moves to (c + 1, 0) and returns True when c is not the
\* last chapter; prev_chapter moves to (c - 1, 0) and returns True when
\* c > 0; at the boundary they return False and leave chapter and page.
C15_ChapterKeys ==
    /\ Handled("next_chapter") =>
          IF trace.fromC < Len(book) - 1
          THEN trace.ret /\ AtPosition(trace.fromC + 1, 0)
          ELSE ~trace.ret /\ AtPosition(trace.fromC, trace.fromP)
    /\ Handled("prev_chapter") =>
          IF trace.fromC > 0
          THEN trace.ret /\ AtPosition(trace.fromC - 1, 0)
          ELSE ~trace.ret /\ AtPosition(trace.fromC, trace.fromP)

\* Both boundaries were met on a page other than the first: prev_chapter
\* has returned False in chapter 0, or next_chapter in the last chapter,
\* and the page index is still the one it was.
C15_Witness ==
    /\ \/ Handled("prev_chapter") /\ trace.fromC = 0
       \/ Handled("next_chapter") /\ trace.fromC = Len(book) - 1
    /\ ~trace.ret
    /\ trace.fromP > 0
    /\ current_page = trace.fromP

ToggleStep == pc = "key" /\ pc' = "render" /\ trace'.key = "toggle_double_page"

\* The step is the page fetch that follows a toggle key.
FetchAfterToggle == pc = "render" /\ pc' = "key" /\ trace.key = "toggle_double_page"

\* C17: every toggle flips the effective double-page mode (the first one
\* sets the override to the negation of the breakpoint's mode, later ones
\* negate the override) and leaves chapter and page index; the page index
\* is clamped into the new page sequence by the page fetch that follows.
C17_ToggleFlipsMode ==
    [][ /\ ToggleStep =>
             /\ DoublePageNow' = ~DoublePageNow
             /\ override' = IF override = "unset"
                            THEN (IF get_double_page_mode(termW) THEN "off" ELSE "on")
                            ELSE (IF override = "on" THEN "off" ELSE "on")
             /\ current_chapter' = current_chapter
             /\ current_page' = current_page
        /\ FetchAfterToggle =>
             /\ current_chapter' = current_chapter
             /\ current_page' = Max(0, Min(current_page, Len(rPages') - 1))
      ]_vars

\* A toggle has switched double-page mode on with the position beyond the
\* last double page, and the page fetch after it has brought the page index
\* down into the shorter page sequence.
C17_Witness ==
    /\ PageShown
    /\ trace.key = "toggle_double_page"
    /\ DoublePageNow
    /\ trace.toP = trace.fromP
    /\ current_page < trace.toP

(***************************************************************************)
(* Properties of SpecProgress.                                             *)
(***************************************************************************)
\* page_index * 100 / len(pages), truncated; 0 when there are no pages
ExactChapterProgress(page, npages) ==
    IF npages > 0 THEN (page * 100) \div npages ELSE 0

\* ((chapter / total) + (cp / 100 / total)) * 100 = (100 * chapter + cp) / total,
\* truncated
ExactOverallProgress(chapter, cp, total_chapters) ==
    (100 * chapter + cp) \div total_chapters

\* C18: the progress record of get_current_pages has chapter_progress =
\* trunc(page_index * 100 / len(pages)) (0 without pages), overall_progress =
\* trunc(((chapter_index / total_chapters) + (chapter_progress / 100 /
\* total_chapters)) * 100), both in 0..99, and total_chapters = the number of
\* chapters.
C18_ProgressFormula ==
    progress_info.called =>
        /\ progress_info.chapter_progress =
              ExactChapterProgress(position.page, position.pages)
        /\ progress_info.overall_progress =
              ExactOverallProgress(position.chapter, progress_info.chapter_progress,
                                   position.chapters)
        /\ progress_info.chapter_progress \in 0..99
        /\ progress_info.overall_progress \in 0..99
        /\ progress_info.total_chapters = position.chapters

(***************************************************************************)
(* Properties of Spec: bookmarks.                                          *)
(***************************************************************************)
\* A load of the bookmark has been handled: at the opening of the book or
\* on the goto-bookmark key.
Loaded == Handled("open") \/ Handled("bookmark_goto")

\* A save leaves the position it was made at as the single record.
SaveOverwrites ==
    Handled("bookmark_save") =>
        /\ bookmark = [exists |-> TRUE, chapter |-> trace.fromC, page |-> trace.fromP]
        /\ AtPosition(trace.fromC, trace.fromP)

\* C19: load_bookmark returns the most recently saved record (each save
\* overwrites the single record) and ReadingState.load_bookmark restores
\* exactly its chapter and page; when nothing was saved, nothing is loaded and
\* the position is unchanged.
C19_BookmarkRoundTrip ==
    /\ SaveOverwrites
    /\ Loaded =>
          IF bookmark.exists
          THEN trace.ret /\ AtPosition(bookmark.chapter, bookmark.page)
          ELSE ~trace.ret /\ AtPosition(trace.fromC, trace.fromP)

\* C19 as amended: the record is restored exactly when its chapter is a
\* chapter index of the open book; a record with another chapter, like no
\* record, is answered with False and leaves the position.
C19_RestoresValidRecord ==
    /\ SaveOverwrites
    /\ Loaded =>
          IF bookmark.exists /\ is_valid_chapter(bookmark.chapter)
          THEN trace.ret /\ AtPosition(bookmark.chapter, bookmark.page)
          ELSE ~trace.ret /\ AtPosition(trace.fromC, trace.fromP)

\* The goto-bookmark key, pressed in chapter 0, has restored a record that
\* was saved on the second page of chapter 1.
C19_Witness ==
    /\ Handled("bookmark_goto") /\ trace.ret
    /\ bookmark = [exists |-> TRUE, chapter |-> 1, page |-> 1]
    /\ trace.fromC = 0
    /\ current_chapter = 1 /\ current_page = 1

(***************************************************************************)
(* Properties of SpecLayout.                                               *)
(***************************************************************************)
LaidOut == wrapped.called /\ ~wrapped.raised

\* There is exactly one page, of visible_height lines, and all its lines
\* after the first n are empty.
OnePagePadded(n) ==
    /\ Len(pages) = 1
    /\ Len(pages[1]) = visible_height
    /\ \A k \in (n + 1)..visible_height : pages[1][k] = <<>>

AllPagesBlank ==
    \A p \in 1..Len(pages) : \A k \in 1..Len(pages[p]) : pages[p][k] = <<>>

\* C20: content that wraps to at most visible_height lines yields exactly
\* one page, padded with empty lines to visible_height; empty and
\* whitespace-only content is of this kind and yields one page of entirely
\* blank lines, not an empty page sequence.
C20_ShortChapterOnePage ==
    LaidOut =>
        /\ Len(wrapped.lines) <= visible_height => OnePagePadded(Len(wrapped.lines))
        /\ IsBlank(text) => OnePagePadded(0)

\* C20 as amended: whitespace-only content yields one blank page when it
\* has fewer than visible_height newlines, and otherwise several pages, all
\* of blank lines; the page sequence is never empty.
C20_ShortOrBlankChapter ==
    LaidOut =>
        /\ Len(pages) >= 1
        /\ Len(wrapped.lines) <= visible_height => OnePagePadded(Len(wrapped.lines))
        /\ IsBlank(text) => AllPagesBlank
        /\ text = <<>> => OnePagePadded(0)

\* Whitespace-only content with a newline was laid out as one page of
\* blank lines, some of them padding.
C20_Witness ==
    /\ LaidOut
    /\ IsBlank(text) /\ \E k \in 1..Len(text) : text[k] = NL
    /\ Len(wrapped.lines) < visible_height
    /\ OnePagePadded(0)

(***************************************************************************)
(* Properties of SpecPages: the tags carried from page to page.            *)
(***************************************************************************)
\* The input lines that went into the k-th emitted page.
RawPage(k) == SubSeq(lines, emitted[k].from + 1, emitted[k].from + emitted[k].taken)

AllBlank(ls) == \A k \in 1..Len(ls) : IsBlank(ls[k])

\* s begins with pre.
StartsWith(s, pre) == Len(pre) <= Len(s) /\ SubSeq(s, 1, Len(pre)) = pre

\* Opening markers were prepended to the first non-blank line of page k.
Reopened(k) ==
    LET f == FirstNonBlank(RawPage(k))
    IN  /\ emitted[k].start /= <<>>
        /\ f > 0
        /\ pages[k][f] /= RawPage(k)[f]
        /\ StartsWith(pages[k][f], open_tags_string(emitted[k].start))

\* C21: the start_open_tags handed to the finalization of every page is the
\* empty list, after a cut at a paragraph boundary and after a hard cut, so
\* no page has opening markers prepended.
C21_CarryAlwaysEmpty ==
    \A k \in 1..Len(emitted) : emitted[k].start = <<>> /\ ~Reopened(k)

\* C21 as amended: the carried tags are empty for the first page and after a
\* cut at a paragraph boundary whose page has a non-blank line (an all-blank
\* page hands on what it was given); after a hard cut they are the tags open
\* at the end of the raw lines of the page, and a page handed a non-empty
\* list has them prepended to its first non-blank line.
C21_CarryAfterHardCut ==
    \A k \in 1..Len(emitted) :
        /\ k = 1 => emitted[k].start = <<>>
        /\ (k > 1 /\ emitted[k - 1].kind = "blank") =>
              emitted[k].start = IF AllBlank(RawPage(k - 1)) THEN emitted[k - 1].start
                                 ELSE <<>>
        /\ (k > 1 /\ emitted[k - 1].kind = "hard") =>
              emitted[k].start =
                 track_open_tags(<<open_tags_string(emitted[k - 1].start)>>
                                 \o RawPage(k - 1))
        /\ (emitted[k].start /= <<>> /\ ~AllBlank(RawPage(k))) => Reopened(k)

\* A hard cut inside an open span was followed by a page with the span's
\* opening marker prepended.
C21_Witness ==
    /\ ppc = "done"
    /\ \E k \in 2..Len(emitted) :
          /\ emitted[k - 1].kind = "hard"
          /\ emitted[k].start = << <<"b">> >>
          /\ Reopened(k)

\* Scanning marker by marker, every closing marker finds an open tag of its
\* name.
RECURSIVE ClosesMatched(_, _)
ClosesMatched(ts, stack) ==
    IF ts = <<>> THEN TRUE
    ELSE IF Head(ts).close
         THEN /\ \E k \in 1..Len(stack) : stack[k] = Head(ts).name
              /\ ClosesMatched(Tail(ts), RemoveLast(stack, Head(ts).name))
         ELSE ClosesMatched(Tail(ts), Append(stack, Head(ts).name))

\* The number of opening (close = FALSE) or closing markers of a name.
MarkerCount(ts, name, close) ==
    Cardinality({k \in 1..Len(ts) : ts[k].name = name /\ ts[k].close = close})

\* C22: when the input lines hold no unmatched closing marker, every page of
\* create_pages, a page after a hard cut inside an open span included, has
\* for each tag name as many opening as closing markers: finalization closes
\* each open tag once.
C22_MarkersPaired ==
    ClosesMatched(PageTags(lines), <<>>) =>
        \A k \in 1..Len(pages) :
            LET ts == PageTags(pages[k])
            IN  \A n \in 1..Len(ts) :
                    MarkerCount(ts, ts[n].name, FALSE) = MarkerCount(ts, ts[n].name, TRUE)

(***************************************************************************)
(* Properties of SpecTrack.                                                *)
(***************************************************************************)
\* The number of occurrences of x in the sequence q from index k on.
CountFrom(q, x, k) == Cardinality({h \in k..Len(q) : q[h] = x})

\* base after the closing markers closing: of every name the most recently
\* pushed occurrences are removed, one per closing marker of the name; a
\* closing marker that finds no occurrence removes nothing.
AfterClosing(base, closing) ==
    LET keep == {k \in 1..Len(base) :
                    CountFrom(base, base[k], k) > CountFrom(closing, base[k], 1)}
        Pick[k \in 0..Len(base)] ==
            IF k = 0 THEN <<>>
            ELSE IF k \in keep THEN Append(Pick[k - 1], base[k]) ELSE Pick[k - 1]
    IN  Pick[Len(base)]

\* One line was processed.
TrackedLine == tpc = "loop" /\ i' = i + 1

\* C23: processing the lines in order, a closing marker removes the most
\* recently pushed open tag of its name and one without an open tag of its
\* name leaves the stack unchanged; close_open_tags emits the closing
\* markers in reverse stack order.
C23_TrackRecovers ==
    [][
        /\ TrackedLine =>
              (LET t == parse_markup_tags(lines[i + 1])
               IN  tags_open' = AfterClosing(tags_open \o t.opening, t.closing))
        /\ tpc' = "closed" =>
              (LET ts == ScanTags(closing_tags', 1)
               IN  /\ \A k \in 1..Len(ts) : ts[k].close
                   /\ TagNames(ts) = Reverse(tags_open')
                   /\ Len(closing_tags') = Len(Flatten(tags_open')) + 3 * Len(tags_open'))
      ]_vars

\* Of two open tags of one name the newer one was closed, a closing marker
\* without an open tag was passed over, and the closing string was made.
C23_Witness ==
    /\ tpc = "closed"
    /\ lines = << <<"a", "[", "/", "b", "]">>, <<"[", "b", "]", "a">>, <<"[", "i", "]">>,
                  <<"[", "/", "b", "]", "[", "b", "]">> >>
    /\ tags_open = << <<"b">>, <<"i">> >>
    /\ closing_tags = <<"[", "/", "i", "]", "[", "/", "b", "]">>

(***************************************************************************)
(* SpecSmallTerminal: create_pages with the visible_height that            *)
(* get_display_dimensions derives from a terminal of few rows.  emitted    *)
(* has a record for every iteration of the outer while, also for one that  *)
(* emits no page; the run is followed for MaxIterations iterations.        *)
(***************************************************************************)
MinTermHeight == 4
MaxTermHeight == 7
MaxIterations == 5

InitSmallTerminal ==
    /\ lines \in PageInputs
    /\ visible_height \in {VisibleHeight(h) : h \in MinTermHeight..MaxTermHeight}
    /\ i = 0 /\ pages = <<>> /\ current_open_tags = <<>>
    /\ ppc = "loop" /\ emitted = <<>>
    /\ IdleWrap /\ IdleNav /\ IdleCalc

\* One iteration of the outer while, whichever branch it takes.  With a
\* visible_height below 1 the inner while adds no line: at 0 the empty
\* current_page counts as full and is emitted by the hard cut, below 0 no
\* branch emits a page.
Iterate ==
    /\ ppc = "loop"
    /\ i < Len(lines)
    /\ Len(emitted) < MaxIterations
    /\ Iterated(PageBranch(lines, visible_height, i))
    /\ UNCHANGED <<lines, visible_height, ppc, wrapVars, navVars, calcVars>>

NextSmallTerminal == Iterate \/ ReturnPages

SpecSmallTerminal == InitSmallTerminal /\ [][NextSmallTerminal]_vars

\* C24: create_pages terminates for every visible_height that
\* get_display_dimensions can produce, 0 and negative values included: each
\* iteration of the outer loop consumes at least one input line or ends the
\* loop.
C24_IterationConsumes ==
    [][(ppc = "loop" /\ emitted' /= emitted) => i' > i]_vars

(***************************************************************************)
(* Properties of SpecMenu.                                                 *)
(***************************************************************************)
\* C25: for a book with at least one chapter the chapter index stays within
\* 0 .. total_chapters - 1 through page and chapter navigation, goto start
\* and end, the chapter menu and bookmark loads; a bookmark whose chapter is
\* negative or not below the chapter count is rejected with False and leaves
\* chapter and page unchanged.
C25_ChapterInRange ==
    /\ 0 <= current_chapter /\ current_chapter < Len(book)
    /\ (Loaded /\ bookmark.exists
           /\ (bookmark.chapter < 0 \/ bookmark.chapter >= Len(book))) =>
          ~trace.ret /\ AtPosition(trace.fromC, trace.fromP)

\* A record with a chapter index equal to the chapter count was rejected
\* when the book was opened, and later the menu's down key was pressed on
\* the last chapter.
C25_Witness ==
    /\ pc = "menu" /\ trace.key = "chapter_menu_down"
    /\ trace.fromC = Len(book) - 1 /\ current_chapter = Len(book) - 1
    /\ bookmark.exists /\ bookmark.chapter = Len(book)

\* C28: from reading mode a help key and one further key press return the
\* loop to reading mode with show_help and show_chapter_list false and the
\* position unchanged, without raising, whatever show_border is.
C28_HelpTransient ==
    [][pc = "help" =>
          /\ pc' = "render"
          /\ ~show_help' /\ ~show_chapter_list'
          /\ current_chapter' = current_chapter /\ current_page' = current_page]_vars

\* C29: after the menu is closed with a close key the chapter and the page
\* are those of the moment the menu was opened, whatever up and down moves
\* were made.
C29_CloseCancels ==
    Handled("chapter_menu_close") =>
        current_chapter = opened_at.chapter /\ current_page = opened_at.page

(***************************************************************************)
(* Properties of SpecWalk.                                                 *)
(***************************************************************************)
\* The place of (c, p) in the book: the pages before it, chapter by chapter.
PlaceOf(c, p) == PagesBefore(c) + p

\* C26: under one layout the page shown after k next-page keys from (0, 0)
\* is the k-th page of the book in spine and page order, the last page of
\* the last chapter from k = total pages - 1 on; after k previous-page keys
\* from there it is the k-th page counted back from the last, (0, 0) from
\* k = total pages - 1 on.
C26_WalkVisitsEveryPage ==
    /\ pc /= "crashed"
    /\ pc = "key" =>
        /\ current_chapter \in 0..(Len(book) - 1)
        /\ current_page \in 0..(Len(LaidOutPages(current_chapter)) - 1)
        /\ phase = "forth" =>
              PlaceOf(current_chapter, current_page) = Min(turned, TotalPages - 1)
        /\ phase = "back" =>
              PlaceOf(current_chapter, current_page) = Max(TotalPages - 1 - turned, 0)

\* The walk through a book of three chapters went to the end, stayed there
\* and came back to (0, 0).
C26_Witness ==
    /\ pc = "key" /\ phase = "back"
    /\ Len(book) = 3 /\ TotalPages > Len(book)
    /\ turned = TotalPages - 1
    /\ current_chapter = 0 /\ current_page = 0

(***************************************************************************)
(* Properties of SpecTurn.                                                 *)
(***************************************************************************)
\* C27: the overall progress of the render after a next-page or
\* next-chapter key is not below the one of the render before the key, and
\* the one after a previous-page or previous-chapter key is not above it,
\* also when the key enters another chapter.
C27_ProgressMonotone ==
    [][progress_info.called =>
          /\ trace'.key \in {"next_page", "next_chapter"} =>
                progress_info'.overall_progress >= progress_info.overall_progress
          /\ trace'.key \in {"prev_page", "prev_chapter"} =>
                progress_info'.overall_progress <= progress_info.overall_progress]_vars

\* A next-page key has entered the second of three chapters, a chapter of
\* seven pages, at page 0: the render after it shows 33 percent.
C27_Witness ==
    /\ progress_info.called /\ trace.key = "next_page"
    /\ position.chapter = 1 /\ position.page = 0 /\ position.pages = 7
    /\ position.chapters = 3
    /\ progress_info.chapter_progress = 0
    /\ progress_info.overall_progress = 33

(***************************************************************************)
(* The double page of SpecWalk.                                            *)
(***************************************************************************)
\* The column width of the compositor and the width the chapter was wrapped
\* to, under the layout of the last render.
RenderedColumnWidth == (rTextWidth - Len(Separator)) \div 2

RenderedWrapWidth == Max(20, RenderedColumnWidth - 2)

\* The lines of the chapter on screen as they were wrapped for a column.
RenderedColumnLines ==
    wrap_text_to_width(ChapterContent(current_chapter), RenderedWrapWidth).lines

\* C30: when a double page is on screen, the width its columns were wrapped
\* to is at most the column width, and no wrapped line has more visible
\* characters than a column holds, so that no line is truncated.
C30_NoTextCutOff ==
    (pc = "key" /\ DoublePageNow) =>
        /\ RenderedWrapWidth <= RenderedColumnWidth
        /\ \A k \in 1..Len(RenderedColumnLines) :
              /\ VisibleLength(RenderedColumnLines[k]) <= RenderedColumnWidth
              /\ format_line_for_column(RenderedColumnLines[k], RenderedColumnWidth)
                    = RenderedColumnLines[k]
                      \o Blanks(RenderedColumnWidth - VisibleLength(RenderedColumnLines[k]))
====
